---- MODULE Spec2Model ----
(***************************************************************************)
(* Model of the Shopify -> AI mapping -> TikTok Shop sync bot:             *)
(*   ai_mapper.py       AIMapper       (mapping engine, cache, fallback)   *)
(*   tiktok_handler.py  TikTokHandler  (downstream client)                 *)
(*   shopify_handler.py ShopifyHandler (upstream client)                   *)
(*   main.py            SyncBot        (orchestrator)                      *)
(*                                                                         *)
(* Python strings are sequences of one-character strings, lists are        *)
(* sequences, dicts are functions on their keys (a missing key is a key    *)
(* outside the DOMAIN).  An exception is a result record with raised set.  *)
(* The remote services (AI transport, channel transport, store transport)  *)
(* are oracles: the answers to successive requests are inputs of the       *)
(* action that models the operation.                                       *)
(***************************************************************************)
EXTENDS Integers, Sequences, FiniteSets, TLC

VARIABLES
  Config,     \* config.Config: MAX_RETRIES, BATCH_SIZE, TIKTOK_APP_KEY
  shopify,    \* SyncBot.shopify   : the ShopifyHandler object
  tiktok,     \* SyncBot.tiktok    : the TikTokHandler object
  ai_mapper,  \* SyncBot.ai_mapper : the AIMapper object
  scheduler,  \* SyncBot.scheduler : None, or the BackgroundScheduler's state
  _sync_bot_instance,  \* main._sync_bot_instance: None, or the SyncBot
  threads,    \* main(): where the main thread and the scheduler's job thread
              \* stand, and the scheduler's clock
  prev,       \* history: summary of the operation completed before `last`
  last        \* history: the operation completed last, with what it observed

\* what main.py keeps besides the bot's three components
main_state == <<scheduler, _sync_bot_instance, threads>>

vars ==
  <<Config, shopify, tiktok, ai_mapper, scheduler, _sync_bot_instance,
    threads, prev, last>>

(***************************************************************************)
(* Bounds of the model and constants of the program.                       *)
(***************************************************************************)
MaxRetriesBound == 3      \* Config.MAX_RETRIES ranges over 0..MaxRetriesBound
MaxBatchSize == 2         \* Config.BATCH_SIZE ranges over 1..MaxBatchSize
MaxItems == 3             \* longest list handed to a bulk operation
MaxBatchProducts == 3     \* longest list handed to batch_map_products
MaxCatalog == 3           \* most products the store holds
MaxPageLimit == 2         \* page sizes range over 1..MaxPageLimit
MaxOrders == 2            \* most orders the channel returns
MaxClock == 3             \* seconds of the scheduler's clock that are followed
MaxInterval == 2          \* --interval ranges over 1..MaxInterval
MaxRequests == 6          \* requests after which a fetch counts as running

AIMaxRetries == 3         \* _call_openai(prompt, max_retries=3)
KeyDescLen == 100         \* description[:100] in the cache key
PromptDescLen == 500      \* description[:500] in the prompt
PromptMaxVariants == 3    \* variants[:3] in the prompt
FallbackMaxTags == 5      \* tags[:5] in the fallback mapping
FallbackPages == 9        \* range(1, 10): page numbers 1..9
DefaultLimit == 250       \* get_all_products(limit=250)

(***************************************************************************)
(* Python values.                                                          *)
(***************************************************************************)
None == <<"None">>
Get(d, k, default) == IF k \in DOMAIN d THEN d[k] ELSE default
Min(a, b) == IF a < b THEN a ELSE b
\* the one element of a singleton set; {F(x) : x \in {e}} evaluates e once
Only(S) == CHOOSE x \in S : TRUE
Take(s, n) == SubSeq(s, 1, Min(Len(s), n))
Drop(s, n) == SubSeq(s, Min(Len(s), n) + 1, Len(s))
Whitespace == {" ", "\t", "\n"}

startswith(s, prefix) ==
  Len(s) >= Len(prefix) /\ SubSeq(s, 1, Len(prefix)) = prefix

RECURSIVE lstrip(_)
lstrip(s) ==
  IF s # <<>> /\ Head(s) \in Whitespace THEN lstrip(Tail(s)) ELSE s

RECURSIVE rstrip(_)
rstrip(s) ==
  IF s # <<>> /\ s[Len(s)] \in Whitespace
  THEN rstrip(SubSeq(s, 1, Len(s) - 1)) ELSE s

strip(s) == rstrip(lstrip(s))
\* str.rstrip('/')
RECURSIVE rstrip_slash(_)
rstrip_slash(s) ==
  IF s # <<>> /\ s[Len(s)] = "/" THEN rstrip_slash(SubSeq(s, 1, Len(s) - 1))
  ELSE s

\* str.replace(' ', ''): only the space character is removed
RECURSIVE replace_space(_)
replace_space(s) ==
  IF s = <<>> THEN <<>>
  ELSE IF Head(s) = " " THEN replace_space(Tail(s))
  ELSE <<Head(s)>> \o replace_space(Tail(s))

\* ' '.join(list)
RECURSIVE join(_)
join(l) ==
  IF l = <<>> THEN <<>>
  ELSE IF Len(l) = 1 THEN l[1]
  ELSE l[1] \o <<" ">> \o join(Tail(l))

\* code-point order of the characters the model uses
Alphabet ==
  <<"\t", "\n", " ", "#", "0", "1", "2", "3", "4", "5", "6", "7", "8", "9",
    "A", "B", "M", "N", "S",
    "T", "a", "b", "d", "e", "h", "i", "k", "n", "o", "p", "r", "t", "u",
    "v", "w", "y">>
Ord(c) == CHOOSE i \in 1..Len(Alphabet) : Alphabet[i] = c

RECURSIVE StrLess(_, _)
StrLess(a, b) ==
  IF a = <<>> THEN b # <<>>
  ELSE IF b = <<>> THEN FALSE
  ELSE IF Head(a) = Head(b) THEN StrLess(Tail(a), Tail(b))
  ELSE Ord(Head(a)) < Ord(Head(b))

RECURSIVE InsertSorted(_, _)
InsertSorted(x, s) ==
  IF s = <<>> THEN <<x>>
  ELSE IF StrLess(x, Head(s)) THEN <<x>> \o s
  ELSE <<Head(s)>> \o InsertSorted(x, Tail(s))

RECURSIVE sorted(_)
sorted(s) == IF s = <<>> THEN <<>> ELSE InsertSorted(Head(s), sorted(Tail(s)))

(***************************************************************************)
(* Canonical products the model maps.                                      *)
(***************************************************************************)
VarFull ==
  [id |-> <<"v", "1">>, sku |-> <<"S", "1">>, title |-> <<"M">>,
   price |-> <<"9">>, inventory_quantity |-> 5,
   inventory_item_id |-> <<"i", "1">>, barcode |-> <<"b">>]
VarRepriced ==
  [id |-> <<"v", "1">>, sku |-> <<"S", "1">>, title |-> <<"M">>,
   price |-> <<"3">>, inventory_quantity |-> 0,
   inventory_item_id |-> <<"i", "1">>, barcode |-> <<"b">>]
VarNoSku ==
  [id |-> <<"v", "2">>, title |-> <<"N">>, price |-> <<"1">>,
   inventory_item_id |-> <<"i", "2">>]

ProdTagged ==
  [id |-> <<"1">>, title |-> <<"A">>, description |-> <<"d", "e">>,
   handle |-> <<"h">>, vendor |-> <<"w">>, product_type |-> <<"t">>,
   tags |-> << <<"y", "2", "k">>, <<"t", "r", "e", "n", "d">> >>,
   images |-> << <<"u">> >>, variants |-> <<VarFull, VarNoSku>>,
   status |-> <<"a">>, updated_at |-> <<"1">>]
\* the same mapped-relevant fields as ProdTagged, other fields changed
ProdRepriced ==
  [id |-> <<"1">>, title |-> <<"A">>, description |-> <<"d", "e">>,
   handle |-> <<"h">>, vendor |-> <<"w">>, product_type |-> <<"t">>,
   tags |-> << <<"t", "r", "e", "n", "d">>, <<"y", "2", "k">> >>,
   images |-> << <<"u">> >>, variants |-> <<VarRepriced>>,
   status |-> <<"a">>, updated_at |-> <<"2">>]
\* empty description, no tags; title, handle, images and variants missing
ProdBare == [id |-> <<"2">>, description |-> <<>>, tags |-> <<>>]

(***************************************************************************)
(* ai_mapper.py                                                            *)
(***************************************************************************)

\* hashlib.md5(json.dumps(key_data, sort_keys=True)): the digest is modelled
\* as an injective tagging of the dumped key data
md5(key_data) == <<"md5", key_data>>

\* the key with the tags left in the order of the product
_generate_cache_key_unsorted(product_data) ==
  md5([id |-> Get(product_data, "id", None),
       title |-> Get(product_data, "title", None),
       description |-> Take(Get(product_data, "description", <<>>), KeyDescLen),
       product_type |-> Get(product_data, "product_type", None),
       tags |-> Get(product_data, "tags", <<>>)])

_generate_cache_key(product_data) ==
  md5([id |-> Get(product_data, "id", None),
       title |-> Get(product_data, "title", None),
       description |-> Take(Get(product_data, "description", <<>>), KeyDescLen),
       product_type |-> Get(product_data, "product_type", None),
       tags |-> sorted(Get(product_data, "tags", <<>>))])

\* answers of the AI transport to one chat.completions.create call
AIResp == {"api_error", "bad_json", "json_array", "json_object", "json_partial"}

AiTitle == <<"T">>
AiDesc == <<"p">>
AiTags == << <<"#", "a">>, <<"#", "b">> >>

\* json.loads(content) of an answer that parses
json_loads(r) ==
  CASE r = "json_object" ->
         [kind |-> "object",
          obj |-> [tiktok_title |-> AiTitle, tiktok_description |-> AiDesc,
                   hashtags |-> AiTags]]
    [] r = "json_partial" -> [kind |-> "object", obj |-> [hashtags |-> AiTags]]
    [] OTHER -> [kind |-> "array"]

\* the fixed result of dry-run mode
CannedResult ==
  [kind |-> "object",
   obj |-> [category |-> <<"T">>,
            hashtags |-> << <<"#", "a">>, <<"#", "t">>, <<"#", "y">> >>,
            keywords |-> << <<"t">> >>,
            optimized_title |-> <<"S">>,
            optimized_description |-> <<"S", "d">>]]

\* the attempt loop of _call_openai; resps[i] answers the i-th request
RECURSIVE call_openai_loop(_, _, _)
call_openai_loop(resps, attempt, max_retries) ==
  IF attempt >= max_retries
  THEN [raised |-> FALSE, value |-> [kind |-> "null"], calls |-> attempt]
  ELSE LET r == resps[attempt + 1] IN
       IF r \in {"api_error", "bad_json"}
       THEN IF attempt = max_retries - 1
            THEN [raised |-> TRUE, value |-> [kind |-> "null"],
                  calls |-> attempt + 1]
            ELSE call_openai_loop(resps, attempt + 1, max_retries)
       ELSE [raised |-> FALSE, value |-> json_loads(r), calls |-> attempt + 1]

\* _call_openai that gives up after the first attempt
_call_openai_once(self, prompt, resps) ==
  IF self.dry_run
  THEN [raised |-> FALSE, value |-> CannedResult, calls |-> 0]
  ELSE call_openai_loop(resps, 0, 1)

\* _call_openai without the dry-run test: the transport is always asked
_call_openai_live(self, prompt, resps) ==
  call_openai_loop(resps, 0, AIMaxRetries)

_call_openai(self, prompt, resps) ==
  IF self.dry_run
  THEN [raised |-> FALSE, value |-> CannedResult, calls |-> 0]
  ELSE call_openai_loop(resps, 0, AIMaxRetries)

tiktok_variant(v) ==
  [sku |-> Get(v, "sku", <<>>), title |-> Get(v, "title", <<>>),
   price |-> Get(v, "price", <<>>),
   inventory_quantity |-> Get(v, "inventory_quantity", 0),
   barcode |-> Get(v, "barcode", <<>>)]

map_variants(shopify_product) ==
  LET vs == Get(shopify_product, "variants", <<>>)
  IN [i \in 1..Len(vs) |-> tiktok_variant(vs[i])]

DefaultHashtags ==
  << <<"#", "T", "i", "k", "T", "o", "k", "M", "a", "d", "e", "M", "e", "B",
       "u", "y", "I", "t">>,
     <<"#", "T", "r", "e", "n", "d", "i", "n", "g">>,
     <<"#", "S", "h", "o", "p", "N", "o", "w">> >>

fallback_hashtag(tag) ==
  IF ~startswith(tag, <<"#">>) THEN <<"#">> \o replace_space(strip(tag)) ELSE tag

\* _fallback_mapping with the variants listed last to first
_fallback_mapping_reversed(shopify_product) ==
  LET tags == Take(Get(shopify_product, "tags", <<>>), FallbackMaxTags)
      tagged == [i \in 1..Len(tags) |-> fallback_hashtag(tags[i])]
      hashtags == IF tagged = <<>> THEN DefaultHashtags ELSE tagged
      description ==
        IF hashtags # <<>>
        THEN Get(shopify_product, "description", <<>>)
               \o <<"\n", "\n">> \o join(hashtags)
        ELSE Get(shopify_product, "description", <<>>)
  IN [title |-> Get(shopify_product, "title", <<>>),
      description |-> description,
      hashtags |-> hashtags,
      images |-> Get(shopify_product, "images", <<>>),
      variants |-> [i \in DOMAIN map_variants(shopify_product) |->
                      map_variants(shopify_product)[
                        Len(map_variants(shopify_product)) + 1 - i]],
      shopify_id |-> Get(shopify_product, "id", None),
      shopify_handle |-> Get(shopify_product, "handle", None)]

_fallback_mapping(shopify_product) ==
  LET tags == Take(Get(shopify_product, "tags", <<>>), FallbackMaxTags)
      tagged == [i \in 1..Len(tags) |-> fallback_hashtag(tags[i])]
      hashtags == IF tagged = <<>> THEN DefaultHashtags ELSE tagged
      description ==
        IF hashtags # <<>>
        THEN Get(shopify_product, "description", <<>>)
               \o <<"\n", "\n">> \o join(hashtags)
        ELSE Get(shopify_product, "description", <<>>)
  IN [title |-> Get(shopify_product, "title", <<>>),
      description |-> description,
      hashtags |-> hashtags,
      images |-> Get(shopify_product, "images", <<>>),
      variants |-> map_variants(shopify_product),
      shopify_id |-> Get(shopify_product, "id", None),
      shopify_handle |-> Get(shopify_product, "handle", None)]

\* the bounded prompt context of map_product
product_summary(shopify_product) ==
  LET vs == Take(Get(shopify_product, "variants", <<>>), PromptMaxVariants)
  IN [title |-> Get(shopify_product, "title", <<>>),
      description |->
        Take(Get(shopify_product, "description", <<>>), PromptDescLen),
      product_type |-> Get(shopify_product, "product_type", <<>>),
      vendor |-> Get(shopify_product, "vendor", <<>>),
      tags |-> Get(shopify_product, "tags", <<>>),
      variants |-> [i \in 1..Len(vs) |->
                      [title |-> Get(vs[i], "title", <<>>),
                       price |-> Get(vs[i], "price", <<>>)]]]

\* `if use_cache and hasattr(self, '_cache'): if cache_key in self._cache`
cache_lookup_nocheck(self, cache_key, use_cache) == FALSE
cache_lookup(self, cache_key, use_cache) ==
  use_cache /\ self.has_cache /\ cache_key \in DOMAIN self._cache

\* `if use_cache: ... self._cache[cache_key] = tiktok_product`
cache_store_skipped(self, cache_key, use_cache, tiktok_product) == self
\* the insert without its `if use_cache` guard
cache_store_always(self, cache_key, use_cache, tiktok_product) ==
  [self EXCEPT !.has_cache = TRUE,
               !._cache = (cache_key :> tiktok_product) @@ self._cache]
cache_store(self, cache_key, use_cache, tiktok_product) ==
  IF use_cache
  THEN [self EXCEPT !.has_cache = TRUE,
                    !._cache = (cache_key :> tiktok_product) @@ self._cache]
  ELSE self

\* the try block of map_product: the AI call, the payload, the cache insert.
\* ai_result.get on a result that is no dict raises AttributeError.
map_product_try(self, shopify_product, use_cache, cache_key, resps) ==
  LET ai == _call_openai(self, product_summary(shopify_product), resps) IN
  IF ai.raised \/ ai.value.kind # "object"
  THEN [raised |-> TRUE, calls |-> ai.calls, self |-> self,
        ai |-> IF ai.raised THEN "raised" ELSE ai.value.kind]
  ELSE LET tiktok_product ==
             [title |-> Get(ai.value.obj, "tiktok_title",
                            Get(shopify_product, "title", <<>>)),
              description |-> Get(ai.value.obj, "tiktok_description",
                                  Get(shopify_product, "description", <<>>)),
              hashtags |-> Get(ai.value.obj, "hashtags", <<>>),
              images |-> Get(shopify_product, "images", <<>>),
              variants |-> map_variants(shopify_product),
              shopify_id |-> Get(shopify_product, "id", None),
              shopify_handle |-> Get(shopify_product, "handle", None)]
       IN [raised |-> FALSE, calls |-> ai.calls, result |-> tiktok_product,
           ai |-> "object",
           self |-> cache_store(self, cache_key, use_cache, tiktok_product)]

\* map_product with the except clause dropped: the failure escapes
map_product_unguarded(self, shopify_product, use_cache, resps) ==
  LET cache_key ==
        IF use_cache THEN _generate_cache_key(shopify_product) ELSE None
  IN IF cache_lookup(self, cache_key, use_cache)
     THEN [raised |-> FALSE, path |-> "hit", calls |-> 0, ai |-> "not_called",
           result |-> self._cache[cache_key], self |-> self]
     ELSE LET t == map_product_try(self, shopify_product, use_cache,
                                   cache_key, resps)
          IN IF t.raised
             THEN [raised |-> TRUE, path |-> "fallback", calls |-> t.calls,
                   ai |-> t.ai, result |-> None, self |-> self]
             ELSE [raised |-> FALSE, path |-> "ai", calls |-> t.calls,
                   ai |-> t.ai, result |-> t.result, self |-> t.self]

map_product(self, shopify_product, use_cache, resps) ==
  LET cache_key ==
        IF use_cache THEN _generate_cache_key(shopify_product) ELSE None
  IN IF cache_lookup(self, cache_key, use_cache)
     THEN [raised |-> FALSE, path |-> "hit", calls |-> 0, ai |-> "not_called",
           result |-> self._cache[cache_key], self |-> self]
     ELSE LET t == map_product_try(self, shopify_product, use_cache,
                                   cache_key, resps)
          IN IF t.raised
             THEN [raised |-> FALSE, path |-> "fallback", calls |-> t.calls,
                   ai |-> t.ai,
                   result |-> _fallback_mapping(shopify_product),
                   self |-> self]
             ELSE [raised |-> FALSE, path |-> "ai", calls |-> t.calls,
                   ai |-> t.ai, result |-> t.result, self |-> t.self]

\* the loop of batch_map_products from product i on; rs[i] are the AI
\* transport's answers while product i is mapped
RECURSIVE batch_loop(_, _, _, _, _, _)
\* lines 273-281: one product of the batch, m the outcome of its map_product
batch_step(self, products, use_cache, rs, i, acc, m) ==
  IF m.raised
  THEN batch_loop(self, products, use_cache, rs, i + 1,
         [results |-> Append(acc.results, _fallback_mapping(products[i])),
          paths |-> Append(acc.paths, "fallback"),
          calls |-> Append(acc.calls, m.calls),
          ai |-> Append(acc.ai, m.ai)])
  ELSE batch_loop(m.self, products, use_cache, rs, i + 1,
         [results |-> Append(acc.results, m.result),
          paths |-> Append(acc.paths, m.path),
          calls |-> Append(acc.calls, m.calls),
          ai |-> Append(acc.ai, m.ai)])
batch_loop(self, products, use_cache, rs, i, acc) ==
  IF i > Len(products)
  THEN [raised |-> FALSE, results |-> acc.results, paths |-> acc.paths,
        calls |-> acc.calls, ai |-> acc.ai, self |-> self]
  ELSE Only({batch_step(self, products, use_cache, rs, i, acc, m) :
               m \in {map_product(self, products[i], use_cache, rs[i])}})

Reverse(s) == [i \in 1..Len(s) |-> s[Len(s) + 1 - i]]

\* batch_map_products with results.insert(0, mapped) for results.append(mapped)
batch_map_products_prepend(self, products, use_cache, rs) ==
  LET b == batch_loop(self, products, use_cache, rs, 1,
             [results |-> <<>>, paths |-> <<>>, calls |-> <<>>, ai |-> <<>>])
  IN [b EXCEPT !.results = Reverse(b.results)]

batch_map_products(self, products, use_cache, rs) ==
  batch_loop(self, products, use_cache, rs, 1,
             [results |-> <<>>, paths |-> <<>>, calls |-> <<>>, ai |-> <<>>])

\* clear_cache that leaves the entries in place
clear_cache_keep(self) == self

clear_cache(self) ==
  IF self.has_cache THEN [self EXCEPT !._cache = <<>>] ELSE self

(***************************************************************************)
(* tiktok_handler.py                                                       *)
(*                                                                         *)
(* __init__ sets dry_run, app_key, app_secret, base_url and mock_mode; it  *)
(* never sets access_token, which _make_request reads (line 111).  The     *)
(* field has_access_token says whether the embedding code has supplied the *)
(* attribute; without it a live _make_request raises AttributeError before *)
(* any request is sent.                                                    *)
(***************************************************************************)
AppKeys == {<<>>, <<"k">>, <<"a", "p", "p", "_", "1">>}

\* Config.MOCK_MODE (config.py line 44)
MOCK_MODE(app_key) ==
  IF app_key = <<>> \/ ~startswith(app_key, <<"a", "p", "p", "_">>)
  THEN TRUE ELSE FALSE

TikTokHandlerInit(dry, token) ==
  [dry_run |-> dry,
   app_key |-> Config.TIKTOK_APP_KEY,
   mock_mode |-> \/ MOCK_MODE(Config.TIKTOK_APP_KEY)
                 \/ Config.TIKTOK_APP_KEY = <<>>
                 \/ ~startswith(Config.TIKTOK_APP_KEY, <<"a", "p", "p", "_">>),
   has_access_token |-> token]

\* answers of the channel transport to one request
TkOk == {"ok", "ok_item_failed", "ok_no_results"}
TkHttpError == {"http_401", "http_403", "http_500"}
TkAnswers == TkOk \cup TkHttpError \cup {"code_fail", "timeout"}

\* how the transport treats the successive attempts of one _retry_request:
\* the same answer to every attempt, or ("flaky") a timeout and then "ok"
TkKinds == TkAnswers \cup {"flaky"}
Answer(kind, attempt) ==
  IF kind = "flaky" THEN (IF attempt = 0 THEN "timeout" ELSE "ok") ELSE kind

\* response.json() of an answer that passed raise_for_status
TkResponse(answer) ==
  [code |-> IF answer = "code_fail" THEN 1 ELSE 0, kind |-> answer]
NoResponse == [code |-> 1, kind |-> "none"]

\* log is the list of requests sent so far
_make_request(self, endpoint, data, answer, log) ==
  IF self.dry_run
  THEN [raised |-> FALSE, exc |-> "none",
        response |-> [code |-> 0, kind |-> "ok_no_results"], log |-> log]
  ELSE IF ~self.has_access_token
  THEN [raised |-> TRUE, exc |-> "AttributeError", response |-> NoResponse,
        log |-> log]
  ELSE LET sent == Append(log, [endpoint |-> endpoint, data |-> data,
                                answer |-> answer])
       IN IF answer = "timeout"
          THEN [raised |-> TRUE, exc |-> "Timeout", response |-> NoResponse,
                log |-> sent]
          ELSE IF answer \in TkHttpError
          THEN [raised |-> TRUE, exc |-> "HTTPError",
                response |-> NoResponse, log |-> sent]
          ELSE [raised |-> FALSE, exc |-> "none",
                response |-> TkResponse(answer), log |-> sent]

\* the attempt loop of TikTokHandler._retry_request around _make_request;
\* is_none: the loop ended without a return (the function returns None)
RECURSIVE tiktok_retry_loop(_, _, _, _, _, _)
tiktok_retry_loop(self, endpoint, data, kind, attempt, log) ==
  IF attempt >= Config.MAX_RETRIES
  THEN [raised |-> FALSE, exc |-> "none", is_none |-> TRUE,
        response |-> NoResponse, attempts |-> attempt, log |-> log]
  ELSE LET r == _make_request(self, endpoint, data, Answer(kind, attempt), log)
       IN IF ~r.raised
          THEN [raised |-> FALSE, exc |-> "none", is_none |-> FALSE,
                response |-> r.response, attempts |-> attempt + 1,
                log |-> r.log]
          ELSE IF attempt = Config.MAX_RETRIES - 1
          THEN [raised |-> TRUE, exc |-> r.exc, is_none |-> FALSE,
                response |-> NoResponse, attempts |-> attempt + 1,
                log |-> r.log]
          ELSE tiktok_retry_loop(self, endpoint, data, kind, attempt + 1,
                                 r.log)

\* the loop with `attempt == Config.MAX_RETRIES` as its last-attempt test
RECURSIVE tiktok_retry_loop_late(_, _, _, _, _, _)
tiktok_retry_loop_late(self, endpoint, data, kind, attempt, log) ==
  LET r == _make_request(self, endpoint, data, Answer(kind, attempt), log)
  IN IF ~r.raised
     THEN [raised |-> FALSE, exc |-> "none", is_none |-> FALSE,
           response |-> r.response, attempts |-> attempt + 1, log |-> r.log]
     ELSE IF attempt >= Config.MAX_RETRIES
     THEN [raised |-> TRUE, exc |-> r.exc, is_none |-> FALSE,
           response |-> NoResponse, attempts |-> attempt + 1, log |-> r.log]
     ELSE tiktok_retry_loop_late(self, endpoint, data, kind, attempt + 1,
                                 r.log)

tiktok_retry_request_late(self, endpoint, data, kind, log) ==
  tiktok_retry_loop_late(self, endpoint, data, kind, 0, log)

tiktok_retry_request(self, endpoint, data, kind, log) ==
  tiktok_retry_loop(self, endpoint, data, kind, 0, log)

\* a chunk that runs one item into the next chunk
Batch_overlap(items, i) ==
  SubSeq(items, i + 1, Min(i + Config.BATCH_SIZE + 1, Len(items)))

\* the chunk that starts at 0-based index i
Batch(items, i) ==
  SubSeq(items, i + 1, Min(i + Config.BATCH_SIZE, Len(items)))

\* bulk_update_inventory's loop from index i on; kinds[batch_num] is how the
\* transport treats the request of that chunk
RECURSIVE bulk_update_loop(_, _, _, _, _)
bulk_update_loop(self, inventory_updates, kinds, i, log) ==
  IF i >= Len(inventory_updates)
  THEN [result |-> TRUE, log |-> log]
  ELSE LET batch == Batch(inventory_updates, i)
           batch_num == (i \div Config.BATCH_SIZE) + 1
           payload == [j \in 1..Len(batch) |->
                         [sku_id |-> batch[j].sku,
                          quantity |-> batch[j].quantity]]
           r == tiktok_retry_request(self, "/inventory/bulk_update", payload,
                                     kinds[batch_num], log)
       IN IF r.raised \/ r.is_none
          THEN [result |-> FALSE, log |-> r.log]
          ELSE IF r.response.code # 0
          THEN [result |-> FALSE, log |-> r.log]
          ELSE bulk_update_loop(self, inventory_updates, kinds,
                                i + Config.BATCH_SIZE, r.log)

\* the loop with the failed chunk skipped instead of ending the call
RECURSIVE bulk_update_loop_soft(_, _, _, _, _, _)
bulk_update_loop_soft(self, inventory_updates, kinds, i, log, ok) ==
  IF i >= Len(inventory_updates)
  THEN [result |-> ok, log |-> log]
  ELSE LET batch == Batch(inventory_updates, i)
           batch_num == (i \div Config.BATCH_SIZE) + 1
           payload == [j \in 1..Len(batch) |->
                         [sku_id |-> batch[j].sku,
                          quantity |-> batch[j].quantity]]
           r == tiktok_retry_request(self, "/inventory/bulk_update", payload,
                                     kinds[batch_num], log)
       IN bulk_update_loop_soft(self, inventory_updates, kinds,
            i + Config.BATCH_SIZE, r.log,
            ok /\ ~r.raised /\ ~r.is_none /\ r.response.code = 0)

bulk_update_inventory_soft(self, inventory_updates, kinds) ==
  IF self.mock_mode \/ self.dry_run
  THEN [result |-> TRUE, log |-> <<>>]
  ELSE bulk_update_loop_soft(self, inventory_updates, kinds, 0, <<>>, TRUE)

bulk_update_inventory(self, inventory_updates, kinds) ==
  IF self.mock_mode \/ self.dry_run
  THEN [result |-> TRUE, log |-> <<>>]
  ELSE bulk_update_loop(self, inventory_updates, kinds, 0, <<>>)

\* response.get('data', {}).get('results', []) for the chunk `batch`
batch_results(response, batch) ==
  CASE response.kind = "ok" ->
         [j \in 1..Len(batch) |->
            [success |-> TRUE, product_id |-> <<"t">> \o batch[j].title]]
    [] response.kind = "ok_item_failed" ->
         [j \in 1..Len(batch) |->
            [success |-> (j # 1), product_id |-> <<"t">> \o batch[j].title]]
    [] OTHER -> <<>>

\* `for result in batch_results`: count the successes and the failures
RECURSIVE count_results(_, _)
count_results(results, batch_results_) ==
  IF batch_results_ = <<>> THEN results
  ELSE LET result == Head(batch_results_) IN
       count_results(
         IF result.success
         THEN [results EXCEPT !.success = @ + 1,
                              !.product_ids = Append(@, result.product_id)]
         ELSE [results EXCEPT !.failed = @ + 1],
         Tail(batch_results_))

RECURSIVE bulk_create_loop(_, _, _, _, _, _)
bulk_create_loop(self, products, kinds, i, results, log) ==
  IF i >= Len(products)
  THEN [results |-> results, log |-> log]
  ELSE LET batch == Batch(products, i)
           batch_num == (i \div Config.BATCH_SIZE) + 1
           r == tiktok_retry_request(self, "/products/bulk_create", batch,
                                     kinds[batch_num], log)
       IN IF r.raised \/ r.is_none
          THEN [results |-> [results EXCEPT !.failed = @ + Len(products)],
                log |-> r.log]
          ELSE IF r.response.code = 0
          THEN bulk_create_loop(self, products, kinds,
                 i + Config.BATCH_SIZE,
                 count_results(results, batch_results(r.response, batch)),
                 r.log)
          ELSE bulk_create_loop(self, products, kinds,
                 i + Config.BATCH_SIZE,
                 [results EXCEPT !.failed = @ + Len(batch)], r.log)

Digits == <<"0", "1", "2", "3", "4", "5", "6", "7", "8", "9">>
\* str(i) and int(s) for a non-negative integer
RECURSIVE str(_)
str(i) ==
  IF i < 10 THEN <<Digits[i + 1]>>
  ELSE str(i \div 10) \o <<Digits[(i % 10) + 1]>>
digit(c) == CHOOSE k \in 0..9 : Digits[k + 1] = c
RECURSIVE int(_)
int(s) ==
  IF s = <<>> THEN 0 ELSE 10 * int(SubSeq(s, 1, Len(s) - 1)) + digit(s[Len(s)])
mock_id(i) == <<"m", "o", "c", "k", "_", "i", "d", "_">> \o str(i)

\* _generate_signature (lines 38-67): the HMAC of method, path, the sorted
\* parameters, the timestamp and the body, modelled as an injective tagging
\* (the parameter dict is a function, which has no order)
_generate_signature(method, path, params, timestamp, body) ==
  <<"hmac", method, path, params, timestamp, body>>

\* int(time.time() * 1000) at the attempt: time passes between attempts
Timestamp(attempt) == 100 + attempt

\* _make_request, lines 88-105, on the dict `params`: app_key and timestamp
\* are written into it, the signature is computed over it and written into
\* it as `sign`.  signed: the dict the signature was computed over;
\* params: the dict as the call leaves it.
sign_request(self, method, endpoint, params, timestamp, body) ==
  LET updated ==
        [k \in DOMAIN params \cup {"app_key", "timestamp"} |->
           IF k = "app_key" THEN self.app_key
           ELSE IF k = "timestamp" THEN str(timestamp)
           ELSE params[k]]
      signature == _generate_signature(method, endpoint, updated, timestamp,
                                       body)
  IN [signed |-> updated, timestamp |-> timestamp, sign |-> signature,
      params |-> [k \in DOMAIN updated \cup {"sign"} |->
                    IF k = "sign" THEN signature ELSE updated[k]]]

\* _retry_request around _make_request, with the signing of each attempt.
\* _retry_request passes the same args and kwargs to every attempt: a dict
\* the caller passed as `params` is one object for all attempts (shared);
\* without it each attempt starts from its own empty dict (line 91).
\* The result lists what each attempt signed.
RECURSIVE signed_retry_loop(_, _, _, _, _, _, _, _, _)
signed_attempt(self, method, endpoint, data, params, shared, kind, attempt, signed, s, r) ==
  LET so_far == Append(signed, [signed |-> s.signed,
                                timestamp |-> s.timestamp,
                                sign |-> s.sign,
                                answer |-> Answer(kind, attempt)])
  IN IF ~r.raised \/ attempt = Config.MAX_RETRIES - 1 THEN so_far
     ELSE signed_retry_loop(self, method, endpoint, data,
                            IF shared THEN s.params ELSE params, shared,
                            kind, attempt + 1, so_far)
signed_retry_loop(self, method, endpoint, data, params, shared, kind, attempt, signed) ==
  IF attempt >= Config.MAX_RETRIES \/ self.dry_run THEN signed
  ELSE Only({signed_attempt(self, method, endpoint, data, params, shared,
                            kind, attempt, signed, s, r) :
               s \in {sign_request(self, method, endpoint, params,
                                   Timestamp(attempt), data)},
               r \in {_make_request(self, endpoint, data,
                                    Answer(kind, attempt), <<>>)}})

bulk_create_products(self, products, kinds) ==
  IF self.mock_mode \/ self.dry_run
  THEN [results |-> [success |-> Len(products), failed |-> 0,
                     product_ids |-> [i \in 1..Len(products) |->
                                        mock_id(i - 1)]],
        log |-> <<>>]
  ELSE bulk_create_loop(self, products, kinds, 0,
                        [success |-> 0, failed |-> 0, product_ids |-> <<>>],
                        <<>>)

\* response.get('data', {}).get('orders', []): the dry-run response and an
\* answer without data carry no orders
orders_of(response, channel_orders) ==
  IF response.kind = "ok_no_results" THEN <<>> ELSE channel_orders

\* get_orders; channel_orders is what the channel lists under data.orders
get_orders(self, channel_orders, kind) ==
  LET r == tiktok_retry_request(self, "/orders/list", <<>>, kind, <<>>) IN
  IF r.raised \/ r.is_none
  THEN [raised |-> FALSE, orders |-> <<>>, log |-> r.log]
  ELSE IF r.response.code = 0
  THEN [raised |-> FALSE, orders |-> orders_of(r.response, channel_orders),
        log |-> r.log]
  ELSE [raised |-> FALSE, orders |-> <<>>, log |-> r.log]

\* update_inventory (lines 157-197); warehouse_id is not given
update_inventory(self, sku, quantity, kind) ==
  IF self.mock_mode \/ self.dry_run
  THEN [result |-> TRUE, log |-> <<>>]
  ELSE LET payload == [sku_id |-> sku, quantity |-> quantity]
           r == tiktok_retry_request(self, "/inventory/update", payload,
                                     kind, <<>>)
       IN IF r.raised \/ r.is_none
          THEN [result |-> FALSE, log |-> r.log]
          ELSE [result |-> (r.response.code = 0), log |-> r.log]

\* response.get('data', {}).get('product_id'): only the channel's "ok" answer
\* names the product it created; the dry-run response has an empty data
product_id_of(response, product_data) ==
  IF response.kind = "ok" THEN <<"t">> \o product_data.title ELSE None

\* create_product (lines 257-285): no mock_mode / dry_run test of its own
create_product(self, product_data, kind) ==
  LET r == tiktok_retry_request(self, "/products/create", product_data,
                                kind, <<>>)
  IN IF r.raised \/ r.is_none
     THEN [result |-> None, log |-> r.log]
     ELSE IF r.response.code = 0
     THEN [result |-> product_id_of(r.response, product_data), log |-> r.log]
     ELSE [result |-> None, log |-> r.log]

\* update_product (lines 356-389)
update_product(self, product_id, product_data, kind) ==
  LET payload == [product_id |-> product_id, title |-> product_data.title]
      r == tiktok_retry_request(self, "/products/update", payload, kind, <<>>)
  IN IF r.raised \/ r.is_none
     THEN [result |-> FALSE, log |-> r.log]
     ELSE [result |-> (r.response.code = 0), log |-> r.log]

\* update_order_tracking (lines 432-472); tracking_url and carrier not given
update_order_tracking(self, order_id, tracking_number, kind) ==
  LET payload == [order_id |-> order_id, tracking_number |-> tracking_number]
      r == tiktok_retry_request(self, "/orders/update_tracking", payload,
                                kind, <<>>)
  IN IF r.raised \/ r.is_none
     THEN [result |-> FALSE, log |-> r.log]
     ELSE [result |-> (r.response.code = 0), log |-> r.log]

(***************************************************************************)
(* shopify_handler.py                                                      *)
(*                                                                         *)
(* The store is an oracle: `world` is what the store holds and how it      *)
(* pages, `script` says which of the requests of one operation fail and    *)
(* how.  `log` is the sequence of requests sent by the operation so far.   *)
(***************************************************************************)
Range(s) == {s[i] : i \in DOMAIN s}

\* str.split(sep) for a one-character separator
RECURSIVE split_from(_, _, _)
split_from(s, sep, cur) ==
  IF s = <<>> THEN <<cur>>
  ELSE IF s[1] = sep THEN <<cur>> \o split_from(Tail(s), sep, <<>>)
       ELSE split_from(Tail(s), sep, Append(cur, s[1]))
split(s, sep) == split_from(s, sep, <<>>)

\* products as the store's API lists them
RawVarFull(i) ==
  [id |-> <<"v">> \o str(i), sku |-> <<"S">> \o str(i), title |-> <<"M">>,
   price |-> <<"9">>, inventory_quantity |-> 5,
   inventory_item_id |-> <<"i">> \o str(i)]
RawVarNoSku(i) ==
  [id |-> <<"w">> \o str(i), title |-> <<"N">>,
   inventory_item_id |-> <<"j">> \o str(i)]
RawVarUntracked(i) == [id |-> <<"x">> \o str(i), sku |-> <<"U">> \o str(i)]
RawProduct(i) ==
  CASE i % 3 = 1 ->
         [id |-> str(i), title |-> <<"A">>, body_html |-> <<"d">>,
          handle |-> <<"h">>, tags |-> <<"y", ",", " ", "t">>,
          images |-> <<[src |-> <<"u">>], [alt |-> <<"a">>]>>,
          variants |-> <<RawVarFull(i), RawVarNoSku(i)>>,
          updated_at |-> <<"1">>]
    [] i % 3 = 2 -> [id |-> str(i)]
    [] OTHER ->
         [id |-> str(i), title |-> <<"C">>, body_html |-> <<>>,
          description |-> <<"e">>, tags |-> <<>>,
          variants |-> <<RawVarUntracked(i)>>]
RawCatalog(n) == [i \in 1..n |-> RawProduct(i)]
RawOrder(i) ==
  IF i % 2 = 1
  THEN [id |-> <<"o">> \o str(i), order_number |-> str(i),
        line_items |-> <<[sku |-> <<"S", "1">>, quantity |-> <<"2">>]>>]
  ELSE [id |-> <<"o">> \o str(i)]
RawOrders(n) == [i \in 1..n |-> RawOrder(i)]

\* the store: its products and orders, and how it pages products:
\*   "honest"     a rel="next" link while products remain
\*   "prev_first" as honest, with a rel="previous" link listed before it on
\*                every page after the first
\*   "endless"    every page is the first page again, with a rel="next" link
ServerModes == {"honest", "prev_first", "endless"}
World(n, m, mode) ==
  [products |-> RawCatalog(n), orders |-> RawOrders(m), mode |-> mode]

cursor(offset) == <<"c">> \o str(offset)
cursor_offset(c) == int(Tail(c))

\* the page of /products.json the store answers with, and its Link header
\* (the links in the order the header lists them)
products_offset(world, params) ==
  IF world.mode = "endless" THEN 0
  ELSE IF "page_info" \in DOMAIN params THEN cursor_offset(params.page_info)
  ELSE IF "page" \in DOMAIN params THEN (params.page - 1) * params.limit
  ELSE 0
products_page(world, params) ==
  LET offset == products_offset(world, params) IN
  SubSeq(world.products, offset + 1,
         Min(Len(world.products), offset + params.limit))
products_links(world, params) ==
  LET offset == products_offset(world, params)
      next == [rel |-> "next", page_info |-> cursor(offset + params.limit)]
      previous ==
        [rel |-> "previous",
         page_info |-> cursor(IF offset > params.limit
                              THEN offset - params.limit ELSE 0)]
  IN CASE world.mode = "endless" ->
            IF world.products = <<>> THEN <<>> ELSE <<next>>
       [] world.mode = "prev_first" /\ offset > 0 ->
            IF offset + params.limit < Len(world.products)
            THEN <<previous, next>> ELSE <<previous>>
       [] OTHER ->
            IF offset + params.limit < Len(world.products)
            THEN <<next>> ELSE <<>>

product_ids(world) == {world.products[i].id : i \in DOMAIN world.products}
item_ids(world) ==
  {v.inventory_item_id :
     v \in {w \in UNION {Range(Get(world.products[i], "variants", <<>>)) :
                           i \in DOMAIN world.products} :
              "inventory_item_id" \in DOMAIN w}}

\* the resource an endpoint names exists in the store
Exists(world, endpoint) ==
  CASE endpoint.path = "/products/{id}.json" ->
         endpoint.id \in product_ids(world)
    [] endpoint.path = "/inventory_items/{id}/inventory_levels.json" ->
         endpoint.id \in item_ids(world)
    [] OTHER -> TRUE

ServerData(world, endpoint, params) ==
  CASE endpoint.path = "/products.json" ->
         [products |-> products_page(world, params)]
    [] endpoint.path = "/products/{id}.json" ->
         [product |-> CHOOSE p \in Range(world.products) :
                        p.id = endpoint.id]
    [] endpoint.path = "/inventory_items/{id}/inventory_levels.json" ->
         [inventory_levels |->
            <<[location_id |-> <<"L">>, available |-> 5]>>]
    [] OTHER -> [orders |-> Take(world.orders, params.limit)]
ServerHeaders(world, endpoint, params) ==
  IF endpoint.path = "/products.json"
       /\ products_links(world, params) # <<>>
  THEN [Link |-> products_links(world, params)]
  ELSE <<>>

\* which requests of an operation fail: requests first .. first+count-1 (every
\* request from first on when count is 0) are answered `kind`, every other
\* request is answered "ok"
ShOk == [first |-> 1, kind |-> "ok", count |-> 0]
ScriptAnswer(script, i) ==
  IF script.first <= i /\ (script.count = 0 \/ i < script.first + script.count)
  THEN script.kind ELSE "ok"

ShopifyHandlerInit(dry) == [dry_run |-> dry, session |-> ~dry]

NoData == [raised |-> TRUE, is_none |-> FALSE, data |-> <<>>, headers |-> <<>>]

\* _make_shopify_request.  No modelled store name has a protocol prefix.
\*   e401, e403  -> ValueError (lines 81-94, re-raised at 116-118)
\*   bad_json    -> a 2xx answer whose body json() cannot decode: a
\*                  JSONDecodeError, which is a ValueError (line 116)
\*   e404, e500  -> HTTPError from raise_for_status, re-raised at 135
\*   timeout     -> another RequestException, re-raised at 135
_make_shopify_request(self, endpoint, params, world, script, log) ==
  LET store == rstrip_slash(strip(Config.SHOPIFY_STORE)) IN
  IF store = <<>> \/ "." \notin Range(store)
  THEN [NoData EXCEPT !.raised = TRUE] @@ [exc |-> "ValueError", log |-> log]
  ELSE
    LET scripted == ScriptAnswer(script, Len(log) + 1)
        answer == IF scripted = "ok" /\ ~Exists(world, endpoint)
                  THEN "e404" ELSE scripted
        sent == Append(log, [endpoint |-> endpoint, params |-> params,
                             answer |-> answer])
    IN CASE answer \in {"e401", "e403", "bad_json"} ->
              NoData @@ [exc |-> "ValueError", log |-> sent]
         [] answer \in {"e404", "e500"} ->
              NoData @@ [exc |-> "HTTPError", log |-> sent]
         [] answer = "timeout" ->
              NoData @@ [exc |-> "Timeout", log |-> sent]
         [] OTHER ->
              [raised |-> FALSE, is_none |-> FALSE, exc |-> "",
               data |-> ServerData(world, endpoint, params),
               headers |-> ServerHeaders(world, endpoint, params),
               log |-> sent]

\* _retry_request: for attempt in range(Config.MAX_RETRIES); when the range
\* is empty the function returns None
RECURSIVE shopify_retry_loop(_, _, _, _, _, _, _)
\* lines 153-171: what _retry_request does with the outcome r of one attempt
retry_outcome(self, endpoint, params, world, script, attempt, r) ==
  IF ~r.raised THEN r
  ELSE IF r.exc \in {"ValueError", "HTTPError"}
  THEN \* line 155: a ValueError is never retried; the response of an
       \* HTTPError is falsy, so no HTTPError counts as 401/403 here
       IF r.exc = "ValueError" THEN r
       ELSE IF attempt = Config.MAX_RETRIES - 1 THEN r
       ELSE shopify_retry_loop(self, endpoint, params, world, script,
                               attempt + 1, r.log)
  ELSE IF attempt = Config.MAX_RETRIES - 1 THEN r
       ELSE shopify_retry_loop(self, endpoint, params, world, script,
                               attempt + 1, r.log)
shopify_retry_loop(self, endpoint, params, world, script, attempt, log) ==
  IF attempt >= Config.MAX_RETRIES
  THEN [NoData EXCEPT !.raised = FALSE, !.is_none = TRUE]
         @@ [exc |-> "", log |-> log]
  ELSE Only({retry_outcome(self, endpoint, params, world, script, attempt, r) :
               r \in {_make_shopify_request(self, endpoint, params, world,
                                            script, log)}})

shopify_retry_request(self, endpoint, params, world, script, log) ==
  shopify_retry_loop(self, endpoint, params, world, script, 0, log)

\* `response_data, headers = self._retry_request(...)`: unpacking None
\* raises TypeError
unpack(r) ==
  IF r.is_none THEN [r EXCEPT !.raised = TRUE, !.exc = "TypeError"] ELSE r

\* Python truthiness of a string-or-None value
truthy(v) == v # None /\ v # <<>>

\* _product_dict_to_dict
shopify_variant(variant) ==
  [id |-> Get(variant, "id", None),
   sku |-> Get(variant, "sku", <<>>),
   title |-> Get(variant, "title", <<>>),
   price |-> Get(variant, "price", <<"0">>),
   inventory_quantity |-> Get(variant, "inventory_quantity", 0),
   inventory_item_id |-> Get(variant, "inventory_item_id", None),
   weight |-> Get(variant, "weight", 0),
   weight_unit |-> Get(variant, "weight_unit", <<"k", "g">>),
   barcode |-> Get(variant, "barcode", <<>>)]
_product_dict_to_dict(product_data) ==
  LET raw_variants == Get(product_data, "variants", <<>>)
      raw_images == Get(product_data, "images", <<>>)
      body_html == Get(product_data, "body_html", <<>>)
      tags == Get(product_data, "tags", <<>>)
  IN [id |-> Get(product_data, "id", None),
      title |-> Get(product_data, "title", <<>>),
      description |-> IF truthy(body_html) THEN body_html
                      ELSE Get(product_data, "description", <<>>),
      handle |-> Get(product_data, "handle", <<>>),
      vendor |-> Get(product_data, "vendor", <<>>),
      product_type |-> Get(product_data, "product_type", <<>>),
      tags |-> IF truthy(tags) THEN split(tags, ",") ELSE <<>>,
      images |-> [i \in DOMAIN raw_images |->
                    Get(raw_images[i], "src", <<>>)],
      variants |-> [i \in DOMAIN raw_variants |->
                      shopify_variant(raw_variants[i])],
      status |-> Get(product_data, "status",
                     <<"a", "c", "t", "i", "v", "e">>),
      created_at |-> Get(product_data, "created_at", <<>>),
      updated_at |-> Get(product_data, "updated_at", <<>>)]
convert_products(page) ==
  [i \in DOMAIN page |-> _product_dict_to_dict(page[i])]

ProductsEndpoint == [path |-> "/products.json", id |-> None]
Fetched(products, log) ==
  [raised |-> FALSE, exc |-> "", running |-> FALSE,
   products |-> products, log |-> log]

\* get_all_products, lines 191-231: the cursor loop.  The loop has no bound
\* of its own; a call that has sent MaxRequests requests and goes on is
\* reported as still running.
RECURSIVE cursor_loop(_, _, _, _, _, _, _)
\* lines 203-229: what the cursor loop does with the answer r of one page
cursor_page(self, limit, products, world, script, r) ==
  LET page_products == r.data.products
      link_header == Get(r.headers, "Link", <<>>)
      so_far == products \o convert_products(page_products)
  IN IF r.raised
     THEN [Fetched(products, r.log) EXCEPT !.raised = TRUE, !.exc = r.exc]
     ELSE IF "products" \notin DOMAIN r.data \/ page_products = <<>>
     THEN Fetched(products, r.log)
     ELSE IF link_header = <<>> /\ Len(page_products) < limit
     THEN Fetched(so_far, r.log)
     ELSE IF link_header # <<>>
               /\ \E i \in DOMAIN link_header : link_header[i].rel = "next"
     THEN \* re.search finds the first page_info the header holds
          cursor_loop(self, limit, link_header[1].page_info, so_far,
                      world, script, r.log)
     ELSE Fetched(so_far, r.log)
cursor_loop(self, limit, page_info, products, world, script, log) ==
  IF Len(log) >= MaxRequests
  THEN [Fetched(products, log) EXCEPT !.running = TRUE]
  ELSE
    LET params == IF truthy(page_info)
                  THEN [limit |-> limit, page_info |-> page_info]
                  ELSE [limit |-> limit]
    IN Only({cursor_page(self, limit, products, world, script, r) :
               r \in {unpack(shopify_retry_request(
                               self, ProductsEndpoint, params, world, script,
                               log))}})

\* get_all_products, lines 236-253: the page-number fallback
RECURSIVE fallback_loop(_, _, _, _, _, _, _)
fallback_page(self, limit, page, products, world, script, r) ==
  LET page_products == r.data.products
      so_far == products \o convert_products(page_products)
  IN IF r.raised
     THEN [Fetched(products, r.log) EXCEPT !.raised = TRUE, !.exc = r.exc]
     ELSE IF "products" \notin DOMAIN r.data \/ page_products = <<>>
     THEN Fetched(products, r.log)
     ELSE IF Len(page_products) < limit THEN Fetched(so_far, r.log)
     ELSE fallback_loop(self, limit, page + 1, so_far, world, script, r.log)
fallback_loop(self, limit, page, products, world, script, log) ==
  IF page > FallbackPages THEN Fetched(products, log)
  ELSE Only({fallback_page(self, limit, page, products, world, script, r) :
               r \in {unpack(shopify_retry_request(
                               self, ProductsEndpoint,
                               [limit |-> limit, page |-> page], world,
                               script, log))}})

get_all_products(self, limit, world, script) ==
  IF self.dry_run THEN Fetched(<<>>, <<>>)
  ELSE Only({IF c.raised
             THEN fallback_loop(self, limit, 1, c.products, world, script,
                                c.log)
             ELSE c :
               c \in {cursor_loop(self, limit, None, <<>>, world, script,
                                  <<>>)}})

\* get_product_by_id: every exception is absorbed
get_product_by_id(self, product_id, world, script) ==
  IF self.dry_run THEN [raised |-> FALSE, product |-> None, log |-> <<>>]
  ELSE
    LET r == unpack(shopify_retry_request(
                      self, [path |-> "/products/{id}.json",
                             id |-> product_id],
                      None, world, script, <<>>))
    IN IF ~r.raised /\ "product" \in DOMAIN r.data
       THEN [raised |-> FALSE,
             product |-> _product_dict_to_dict(r.data.product),
             log |-> r.log]
       ELSE [raised |-> FALSE, product |-> None, log |-> r.log]

\* get_inventory_levels, lines 346-362: one request per id, a failure is
\* logged and the id skipped
RECURSIVE levels_by_id(_, _, _, _, _, _, _)
levels_of_id(self, ids, i, levels, world, script, r) ==
  LET found == IF ~r.raised /\ "inventory_levels" \in DOMAIN r.data
               THEN [j \in DOMAIN r.data.inventory_levels |->
                       [inventory_item_id |-> ids[i],
                        location_id |->
                          Get(r.data.inventory_levels[j], "location_id", None),
                        available |->
                          Get(r.data.inventory_levels[j], "available", 0),
                        updated_at |->
                          Get(r.data.inventory_levels[j], "updated_at", None)]]
               ELSE <<>>
  IN levels_by_id(self, ids, i + 1, levels \o found, world, script, r.log)
levels_by_id(self, ids, i, levels, world, script, log) ==
  IF i > Len(ids) THEN [levels |-> levels, log |-> log]
  ELSE Only({levels_of_id(self, ids, i, levels, world, script, r) :
               r \in {unpack(shopify_retry_request(
                        self,
                        [path |-> "/inventory_items/{id}/inventory_levels.json",
                         id |-> ids[i]],
                        None, world, script, log))}})

\* get_inventory_levels, lines 371-389: the variants of one product
RECURSIVE variant_levels(_, _, _)
variant_levels(product, variants, i) ==
  IF i > Len(variants) THEN <<>>
  ELSE
    LET variant == variants[i]
        rest == variant_levels(product, variants, i + 1)
    IN IF ~truthy(Get(variant, "inventory_item_id", None)) THEN rest
       ELSE IF ~truthy(Get(variant, "sku", None)) THEN rest
       ELSE <<[inventory_item_id |-> variant.inventory_item_id,
               sku |-> variant.sku,
               available |-> Get(variant, "inventory_quantity", 0),
               updated_at |-> Get(product, "updated_at", None)]>> \o rest
RECURSIVE product_levels(_, _)
product_levels(products, i) ==
  IF i > Len(products) THEN <<>>
  ELSE variant_levels(products[i], Get(products[i], "variants", <<>>), 1)
         \o product_levels(products, i + 1)

\* get_inventory_levels, lines 368-383: the two skip counters, which the
\* method logs after the loop; a variant lacking both the tracking handle and
\* the SKU is counted as untracked, the first test of the loop body
skipped_variants(products) ==
  LET at == {<<i, j>> \in (DOMAIN products) \X (1..(MaxCatalog + 2)) :
               j \in DOMAIN Get(products[i], "variants", <<>>)}
      variant(x) == products[x[1]].variants[x[2]]
      untracked == {x \in at :
                      ~truthy(Get(variant(x), "inventory_item_id", None))}
  IN [no_tracking |-> Cardinality(untracked),
      no_sku |-> Cardinality({x \in at \ untracked :
                                ~truthy(Get(variant(x), "sku", None))})]

\* (product, variant) pairs of a product list, product after product and
\* within a product variant after variant
RECURSIVE AllVariants(_)
AllVariants(products) ==
  IF products = <<>> THEN <<>>
  ELSE LET variants == Get(Head(products), "variants", <<>>) IN
       [j \in DOMAIN variants |->
          [product |-> Head(products), variant |-> variants[j]]]
         \o AllVariants(Tail(products))
Tracked(x) == truthy(Get(x.variant, "inventory_item_id", None))
WithSku(x) == truthy(Get(x.variant, "sku", None))

\* get_inventory_levels without the SKU test of lines 378-381
get_inventory_levels_nosku(self, inventory_item_ids, world, script) ==
  LET p == get_all_products(self, DefaultLimit, world, script)
      kept == SelectSeq(AllVariants(p.products), Tracked)
  IN IF self.dry_run THEN [raised |-> FALSE, exc |-> "", running |-> FALSE,
                           levels |-> <<>>, log |-> <<>>]
     ELSE [raised |-> p.raised, exc |-> p.exc, running |-> p.running,
           levels |-> IF p.raised \/ p.running THEN <<>>
                      ELSE [k \in DOMAIN kept |->
                              [inventory_item_id |->
                                 kept[k].variant.inventory_item_id,
                               sku |-> kept[k].variant.sku,
                               available |->
                                 Get(kept[k].variant, "inventory_quantity", 0),
                               updated_at |->
                                 Get(kept[k].product, "updated_at", None)]],
           log |-> p.log]

Levels(levels, log) ==
  [raised |-> FALSE, exc |-> "", running |-> FALSE,
   levels |-> levels, log |-> log]

\* get_inventory_levels; None and the empty list of ids are both <<>>;
\* without ids the default page size of get_all_products is used
get_inventory_levels(self, inventory_item_ids, world, script) ==
  IF self.dry_run THEN Levels(<<>>, <<>>)
  ELSE IF Len(inventory_item_ids) > 0
  THEN LET r == levels_by_id(self, inventory_item_ids, 1, <<>>, world,
                             script, <<>>)
       IN Levels(r.levels, r.log)
  ELSE LET p == get_all_products(self, DefaultLimit, world, script) IN
       IF p.running THEN [Levels(<<>>, p.log) EXCEPT !.running = TRUE]
       ELSE IF p.raised
       THEN [Levels(<<>>, p.log) EXCEPT !.raised = TRUE, !.exc = p.exc]
       ELSE Levels(product_levels(p.products, 1), p.log)

shopify_line_item(item) ==
  [sku |-> Get(item, "sku", None), title |-> Get(item, "title", None),
   quantity |-> Get(item, "quantity", None),
   price |-> Get(item, "price", None),
   variant_id |-> Get(item, "variant_id", None)]
shopify_order(order_data) ==
  LET items == Get(order_data, "line_items", <<>>) IN
  [id |-> Get(order_data, "id", None),
   order_number |-> Get(order_data, "order_number", None),
   email |-> Get(order_data, "email", None),
   financial_status |-> Get(order_data, "financial_status", None),
   fulfillment_status |-> Get(order_data, "fulfillment_status", None),
   line_items |-> [i \in DOMAIN items |-> shopify_line_item(items[i])],
   total_price |-> Get(order_data, "total_price", None),
   created_at |-> Get(order_data, "created_at", None),
   updated_at |-> Get(order_data, "updated_at", None)]

\* get_recent_orders: an exception is logged and re-raised
get_recent_orders(self, limit, status, world, script) ==
  IF self.dry_run
  THEN [raised |-> FALSE, exc |-> "", orders |-> <<>>, log |-> <<>>]
  ELSE
    LET r == unpack(shopify_retry_request(
                      self, [path |-> "/orders.json", id |-> None],
                      [limit |-> limit, status |-> status,
                       order |-> "created_at DESC"],
                      world, script, <<>>))
    IN IF r.raised
       THEN [raised |-> TRUE, exc |-> r.exc, orders |-> <<>>, log |-> r.log]
       ELSE [raised |-> FALSE, exc |-> "",
             orders |-> IF "orders" \in DOMAIN r.data
                        THEN [i \in DOMAIN r.data.orders |->
                                shopify_order(r.data.orders[i])]
                        ELSE <<>>,
             log |-> r.log]

(***************************************************************************)
(* main.py: SyncBot                                                        *)
(*                                                                         *)
(* self is the bot: [shopify, tiktok, ai_mapper].  Each operation returns  *)
(* its results dict, `caught` (the outer `except Exception` ran), `running`*)
(* (the fetch never returned) and the bot's mapper after the operation.    *)
(***************************************************************************)
\* how the channel transport treats the chunks of a bulk call whose number
\* is not known beforehand: chunk `at` (every chunk when at = 0) is treated
\* as `kind`
SyncPlan(c, plan) ==
  [i \in 1..c |-> IF plan.at = 0 \/ i = plan.at THEN plan.kind ELSE "ok"]
chunks(n) == (n + Config.BATCH_SIZE - 1) \div Config.BATCH_SIZE

\* levels: what the fetch returned; sent, returned: the argument and the
\* return value of each call of a bulk operation of the downstream client
Synced(self, results) ==
  [raised |-> FALSE, caught |-> FALSE, running |-> FALSE,
   results |-> results, levels |-> <<>>, products |-> <<>>, sent |-> <<>>,
   returned |-> <<>>,
   ai_mapper |-> self.ai_mapper]

\* lines 88-97: the updates for the levels that have a SKU
RECURSIVE inventory_updates_of(_, _)
inventory_updates_of(levels, i) ==
  IF i > Len(levels) THEN <<>>
  ELSE IF ~truthy(Get(levels[i], "sku", None))
  THEN inventory_updates_of(levels, i + 1)
  ELSE <<[sku |-> levels[i].sku,
          quantity |-> Get(levels[i], "available", 0)]>>
         \o inventory_updates_of(levels, i + 1)

\* sync_inventory with the whole batch counted as success whatever the
\* bulk call returned
sync_inventory_optimistic(self, world, script, plan) ==
  LET zero == [success |-> 0, failed |-> 0, total |-> 0] IN
  Only({
    IF f.running THEN [Synced(self, zero) EXCEPT !.running = TRUE]
    ELSE IF f.raised
    THEN \* line 113: total is still 0
         [Synced(self, [zero EXCEPT !.failed = zero.total])
            EXCEPT !.caught = TRUE]
    ELSE
      LET results == [zero EXCEPT !.total = Len(f.levels)]
          inventory_updates == inventory_updates_of(f.levels, 1)
          ok == bulk_update_inventory(
                  self.tiktok, inventory_updates,
                  SyncPlan(chunks(Len(inventory_updates)), plan)).result
      IN IF f.levels = <<>> \/ inventory_updates = <<>>
         THEN [Synced(self, results) EXCEPT !.levels = f.levels]
         ELSE [Synced(self,
                  [results EXCEPT !.success = Len(inventory_updates)])
                 EXCEPT !.levels = f.levels, !.sent = <<inventory_updates>>,
                        !.returned = <<ok>>] :
    f \in {get_inventory_levels(self.shopify, <<>>, world, script)}})

sync_inventory(self, world, script, plan) ==
  LET zero == [success |-> 0, failed |-> 0, total |-> 0] IN
  Only({
    IF f.running THEN [Synced(self, zero) EXCEPT !.running = TRUE]
    ELSE IF f.raised
    THEN \* line 113: total is still 0
         [Synced(self, [zero EXCEPT !.failed = zero.total])
            EXCEPT !.caught = TRUE]
    ELSE
      LET results == [zero EXCEPT !.total = Len(f.levels)]
          inventory_updates == inventory_updates_of(f.levels, 1)
          ok == bulk_update_inventory(
                  self.tiktok, inventory_updates,
                  SyncPlan(chunks(Len(inventory_updates)), plan)).result
      IN IF f.levels = <<>> \/ inventory_updates = <<>>
         THEN [Synced(self, results) EXCEPT !.levels = f.levels]
         ELSE [Synced(self,
                  IF ok
                  THEN [results EXCEPT !.success = Len(inventory_updates)]
                  ELSE [results EXCEPT !.failed = Len(inventory_updates)])
                 EXCEPT !.levels = f.levels, !.sent = <<inventory_updates>>,
                        !.returned = <<ok>>] :
    f \in {get_inventory_levels(self.shopify, <<>>, world, script)}})

\* sync_products; a limit of None is the limit 0 (`limit or 250`, `if limit`);
\* ai_script is how the AI transport answers for each product
sync_products(self, limit, world, script, ai_script, plan) ==
  LET zero == [success |-> 0, failed |-> 0, total |-> 0, product_ids |-> <<>>]
  IN
  Only({
    IF f.running THEN [Synced(self, zero) EXCEPT !.running = TRUE]
    ELSE IF f.raised
    THEN [Synced(self, [zero EXCEPT !.failed = zero.total])
            EXCEPT !.caught = TRUE]
    ELSE
      LET products == IF limit # 0 THEN Take(f.products, limit)
                      ELSE f.products
          results == [zero EXCEPT !.total = Len(products)]
      IN IF products = <<>>
         THEN [Synced(self, results) EXCEPT !.products = f.products]
         ELSE Only({
           LET create_results ==
                 bulk_create_products(
                   self.tiktok, m.results,
                   SyncPlan(chunks(Len(m.results)), plan)).results
           IN [Synced(self,
                  [results EXCEPT !.success = create_results.success,
                                  !.failed = create_results.failed,
                                  !.product_ids = create_results.product_ids])
                 EXCEPT !.products = f.products, !.sent = <<m.results>>,
                        !.ai_mapper = m.self] :
           m \in {batch_map_products(
                    self.ai_mapper, products, TRUE,
                    [i \in 1..Len(products) |-> ai_script])}}) :
    f \in {get_all_products(self.shopify,
                            IF limit # 0 THEN limit ELSE DefaultLimit,
                            world, script)}})

\* a JSON null among the orders is the record [null |-> TRUE]
is_dict(order) == "null" \notin DOMAIN order

\* lines 195-210.  order.get raises AttributeError on an order that is not
\* a dict, in the try block and again in its handler (line 209), so the
\* error leaves the loop; len(line_items) raises TypeError on a null
\* line_items and the handler counts the order as failed.
RECURSIVE process_orders(_, _, _)
process_orders(tiktok_orders, i, results) ==
  IF i > Len(tiktok_orders) THEN [raised |-> FALSE, results |-> results]
  ELSE IF ~is_dict(tiktok_orders[i])
  THEN [raised |-> TRUE, results |-> results]
  ELSE IF Get(tiktok_orders[i], "line_items", <<>>) = None
  THEN process_orders(tiktok_orders, i + 1,
                      [results EXCEPT !.failed = @ + 1])
  ELSE process_orders(tiktok_orders, i + 1,
                      [results EXCEPT !.success = @ + 1])

\* sync_orders without its outer try/except
sync_orders_unguarded(self, channel_orders, kind) ==
  LET zero == [success |-> 0, failed |-> 0, total |-> 0]
      tiktok_orders == get_orders(self.tiktok, channel_orders, kind).orders
      results == [zero EXCEPT !.total = Len(tiktok_orders)]
      p == process_orders(tiktok_orders, 1, results)
  IN IF tiktok_orders = <<>> THEN Synced(self, results)
     ELSE [Synced(self, p.results) EXCEPT !.raised = p.raised]

sync_orders(self, channel_orders, kind) ==
  LET zero == [success |-> 0, failed |-> 0, total |-> 0]
      tiktok_orders == get_orders(self.tiktok, channel_orders, kind).orders
      results == [zero EXCEPT !.total = Len(tiktok_orders)]
      p == process_orders(tiktok_orders, 1, results)
  IN IF tiktok_orders = <<>> THEN Synced(self, results)
     ELSE IF p.raised
     THEN [Synced(self, [p.results EXCEPT !.failed = p.results.total])
             EXCEPT !.caught = TRUE]
     ELSE Synced(self, p.results)

\* run_full_sync (lines 238-254): sync_inventory(), then sync_products()
\* with no limit.  `calls` lists the operations invoked, in order; a fetch
\* that never returns keeps run_full_sync in the operation it is in.
\* inv and prod are how the store, the channel and the AI transport behave
\* during the first and during the second operation.
run_full_sync(self, inv, prod) ==
  Only({
    IF i.running \/ i.raised
    THEN [raised |-> i.raised, running |-> i.running,
          calls |-> <<"sync_inventory">>, inv_results |-> i.results,
          prod_results |-> None, ai_mapper |-> i.ai_mapper]
    ELSE Only({
      [raised |-> q.raised, running |-> q.running,
       calls |-> <<"sync_inventory", "sync_products">>,
       inv_results |-> i.results, prod_results |-> q.results,
       ai_mapper |-> q.ai_mapper] :
      q \in {sync_products([self EXCEPT !.ai_mapper = i.ai_mapper], 0,
                           World(prod.env.n, 0, prod.env.mode),
                           prod.env.script, prod.ai_script, prod.plan)}}) :
    i \in {sync_inventory(self, World(inv.env.n, 0, inv.env.mode),
                          inv.env.script, inv.plan)}})

(***************************************************************************)
(* main.py: the scheduler and the /health route.  SyncBot.scheduler is     *)
(* None until start_scheduler, then a BackgroundScheduler that is running  *)
(* or, after shutdown(), stopped; an object is truthy in either state.     *)
(***************************************************************************)
\* no thread has been started
NoThreads == [op |-> "none"]
Running == <<"running">>
Stopped == <<"stopped">>
\* the bot that main() stores in the module global
TheBot == <<"SyncBot">>

\* start_scheduler (lines 256-275): a new scheduler, started
start_scheduler(sched) == [raised |-> FALSE, scheduler |-> Running]

\* stop_scheduler (lines 277-281); shutdown() of a scheduler that is not
\* running raises SchedulerNotRunningError
stop_scheduler(sched) ==
  IF sched = None THEN [raised |-> FALSE, scheduler |-> None]
  ELSE IF sched = Running THEN [raised |-> FALSE, scheduler |-> Stopped]
  ELSE [raised |-> TRUE, scheduler |-> Stopped]

\* lines 299-305
health_scheduler(health_status, instance, sched) ==
  IF instance # None /\ sched # None
  THEN IF sched = Running
       THEN ("scheduler" :> "running") @@ health_status
       ELSE ("scheduler" :> "stopped") @@ ("status" :> "degraded")
              @@ ("message" :> "AI Sync Bot Running (scheduler stopped)")
              @@ health_status
  ELSE health_status

\* lines 308-314: reading an attribute the mapper does not have raises
\* AttributeError
health_openai(health_status, instance, mapper) ==
  IF instance # None
  THEN IF "openai_available" \notin DOMAIN mapper
       THEN [raised |-> TRUE, health_status |-> health_status]
       ELSE IF mapper.openai_available
       THEN [raised |-> FALSE,
             health_status |-> ("openai" :> "available") @@ health_status]
       ELSE [raised |-> FALSE,
             health_status |->
               ("openai" :> "unavailable") @@ ("status" :> "degraded")
                 @@ ("message" :>
                       "AI Sync Bot Running (OpenAI unavailable, using fallback)")
                 @@ health_status]
  ELSE [raised |-> FALSE, health_status |-> health_status]

\* the /health route (lines 284-327): the answer's status code and body
health(instance, sched, mapper) ==
  LET o == health_openai(
             health_scheduler(
               [status |-> "healthy", message |-> "AI Sync Bot Running",
                flask |-> "running"], instance, sched),
             instance, mapper)
  IN IF o.raised
     THEN [status_code |-> 503,
           json |-> [status |-> "error", message |-> "Health check failed"]]
     ELSE [status_code |->
             IF o.health_status.status \in {"healthy", "degraded"}
             THEN 200 ELSE 503,
           json |-> o.health_status]

(***************************************************************************)
(* Construction.                                                           *)
(***************************************************************************)
NoOp == [op |-> "none"]

\* AIMapper.__init__: no _cache attribute yet
AIMapperInit(dry) == [dry_run |-> dry, has_cache |-> FALSE, _cache |-> <<>>]

Summary(l) ==
  IF l.op = "map_product"
  THEN [op |-> l.op, key |-> l.key, use_cache |-> l.use_cache,
        path |-> l.path, calls |-> l.calls]
  ELSE IF l.op = "clear_cache"
  THEN [op |-> l.op, cleared |-> l.cleared]
  ELSE [op |-> l.op]

(***************************************************************************)
(* The mapping engine on its own.                                          *)
(***************************************************************************)
MapperProducts == {ProdTagged, ProdRepriced, ProdBare}

\* the AI transport's answers to the successive requests of one _call_openai:
\* an answer that parses at once, failures followed by one that parses, and
\* failures on every attempt
AIScripts ==
  {<<"json_object", "json_object", "json_object">>,
   <<"json_partial", "json_object", "json_object">>,
   <<"json_array", "json_object", "json_object">>,
   <<"bad_json", "json_object", "json_object">>,
   <<"bad_json", "bad_json", "json_array">>,
   <<"api_error", "bad_json", "json_partial">>,
   <<"bad_json", "api_error", "json_array">>,
   <<"bad_json", "bad_json", "bad_json">>,
   <<"api_error", "api_error", "api_error">>}

InitMapper ==
  /\ Config = [MAX_RETRIES |-> 1, BATCH_SIZE |-> 1, TIKTOK_APP_KEY |-> <<>>]
  /\ shopify = NoOp
  /\ tiktok = NoOp
  /\ ai_mapper \in {AIMapperInit(d) : d \in BOOLEAN}
  /\ prev = NoOp
  /\ scheduler = None
  /\ threads = NoThreads
  /\ _sync_bot_instance = None
  /\ last = NoOp

MapProduct ==
  \E p \in MapperProducts, use_cache \in BOOLEAN, resps \in AIScripts :
    \E m \in {map_product(ai_mapper, p, use_cache, resps)} :
    /\ ai_mapper' = m.self
    /\ prev' = Summary(last)
    /\ last' = [op |-> "map_product", product |-> p, use_cache |-> use_cache,
                resps |-> resps,
                key |-> _generate_cache_key(p), raised |-> m.raised,
                path |-> m.path, calls |-> m.calls, ai |-> m.ai,
                result |-> m.result]
    /\ UNCHANGED <<main_state, Config, shopify, tiktok>>

\* cleared: the fingerprints the cache held when clear_cache was called
ClearCache ==
  /\ ai_mapper' = clear_cache(ai_mapper)
  /\ prev' = Summary(last)
  /\ last' = [op |-> "clear_cache", had_cache |-> ai_mapper.has_cache,
              cleared |-> DOMAIN ai_mapper._cache]
  /\ UNCHANGED <<main_state, Config, shopify, tiktok>>

NextMapper == MapProduct \/ ClearCache

SpecMapper == InitMapper /\ [][NextMapper]_vars

(***************************************************************************)
(* batch_map_products on its own.                                          *)
(***************************************************************************)
BatchProducts == {ProdTagged, ProdBare}
\* the AI transport answers the mapping of one product at once, or fails it
OkScript == <<"json_object", "json_object", "json_object">>
FailScript == <<"bad_json", "api_error", "json_array">>
\* which products of a batch of n the AI fails: none, one, or all of them
FailSets(n) == {{}} \cup {{k} : k \in 1..n} \cup {1..n}
SeqsUpTo(S, n) == UNION {[1..k -> S] : k \in 0..n}

InitBatch == InitMapper

BatchMapProducts ==
  \E products \in SeqsUpTo(BatchProducts, MaxBatchProducts),
     use_cache \in BOOLEAN :
    \E failing \in IF use_cache THEN FailSets(Len(products)) ELSE {{}} :
      LET rs == [i \in 1..Len(products) |->
                  IF i \in failing THEN FailScript ELSE OkScript]
          b == batch_map_products(ai_mapper, products, use_cache, rs)
      IN
      /\ ai_mapper' = b.self
      /\ prev' = NoOp
      /\ last' = [op |-> "batch_map_products", products |-> products,
                  use_cache |-> use_cache, raised |-> b.raised,
                  results |-> b.results, paths |-> b.paths, ai |-> b.ai]
      /\ UNCHANGED <<main_state, Config, shopify, tiktok>>

BatchClearCache ==
  /\ ai_mapper' = clear_cache(ai_mapper)
  /\ prev' = NoOp
  /\ last' = [op |-> "clear_cache"]
  /\ UNCHANGED <<main_state, Config, shopify, tiktok>>

NextBatch == BatchMapProducts \/ BatchClearCache

SpecBatch == InitBatch /\ [][NextBatch]_vars

(***************************************************************************)
(* The downstream client on its own.                                       *)
(***************************************************************************)
InventoryUpdates(n) ==
  [i \in 1..n |-> [sku |-> <<"S">> \o str(i), quantity |-> i]]
ChannelProducts(n) == [i \in 1..n |-> [title |-> <<"P">> \o str(i)]]
NumChunks(n) == (n + Config.BATCH_SIZE - 1) \div Config.BATCH_SIZE

\* how the transport treats the chunks of one bulk call: every chunk "ok", or
\* one chunk, or all of them, treated as `k`
KindPlans(c, kinds) ==
  {[j \in 1..c |-> "ok"]}
    \cup {[j \in 1..c |-> IF j \in F THEN k ELSE "ok"] :
           F \in FailSets(c) \ {{}}, k \in kinds}
UpdateKinds == {"code_fail", "timeout", "http_401", "flaky"}
CreateKinds == UpdateKinds \cup {"ok_item_failed", "ok_no_results"}
OrderKinds == UpdateKinds \cup {"ok", "ok_no_results", "http_403"}

OrderA == [order_id |-> <<"o", "1">>, line_items |-> <<"l">>]
OrderB == [order_id |-> <<"o", "2">>]
ChannelOrders == {OrderA, OrderB}

InitTikTok ==
  /\ Config \in [MAX_RETRIES : 0..MaxRetriesBound,
                  BATCH_SIZE : 1..MaxBatchSize,
                  TIKTOK_APP_KEY : AppKeys]
  /\ shopify = NoOp
  /\ tiktok \in {TikTokHandlerInit(d, t) : d \in BOOLEAN, t \in BOOLEAN}
  /\ ai_mapper = AIMapperInit(FALSE)
  /\ prev = NoOp
  /\ scheduler = None
  /\ threads = NoThreads
  /\ _sync_bot_instance = None
  /\ last = NoOp

BulkUpdateInventory ==
  \E n \in 0..MaxItems :
    \E kinds \in KindPlans(NumChunks(n), UpdateKinds) :
      LET r == bulk_update_inventory(tiktok, InventoryUpdates(n), kinds) IN
      /\ last' = [op |-> "bulk_update_inventory",
                  items |-> InventoryUpdates(n), kinds |-> kinds,
                  result |-> r.result, log |-> r.log]
      /\ UNCHANGED <<main_state, Config, shopify, tiktok, ai_mapper, prev>>

BulkCreateProducts ==
  \E n \in 0..MaxItems :
    \E kinds \in KindPlans(NumChunks(n), CreateKinds) :
      LET r == bulk_create_products(tiktok, ChannelProducts(n), kinds) IN
      /\ last' = [op |-> "bulk_create_products",
                  items |-> ChannelProducts(n), kinds |-> kinds,
                  results |-> r.results, log |-> r.log]
      /\ UNCHANGED <<main_state, Config, shopify, tiktok, ai_mapper, prev>>

GetOrders ==
  \E channel_orders \in SeqsUpTo(ChannelOrders, MaxOrders),
     kind \in OrderKinds :
    LET r == get_orders(tiktok, channel_orders, kind) IN
    /\ last' = [op |-> "get_orders", kind |-> kind, raised |-> r.raised,
                orders |-> r.orders, log |-> r.log]
    /\ UNCHANGED <<main_state, Config, shopify, tiktok, ai_mapper, prev>>

\* the single-item mutating calls
SingleKinds == UpdateKinds \cup {"ok"}

UpdateInventory ==
  \E n \in 1..MaxItems, kind \in SingleKinds :
    LET item == InventoryUpdates(n)[n]
        r == update_inventory(tiktok, item.sku, item.quantity, kind) IN
    /\ last' = [op |-> "update_inventory", kind |-> kind,
                result |-> r.result, log |-> r.log]
    /\ UNCHANGED <<main_state, Config, shopify, tiktok, ai_mapper, prev>>

CreateProduct ==
  \E n \in 1..MaxItems, kind \in SingleKinds :
    LET r == create_product(tiktok, ChannelProducts(n)[n], kind) IN
    /\ last' = [op |-> "create_product", kind |-> kind,
                result |-> r.result, log |-> r.log]
    /\ UNCHANGED <<main_state, Config, shopify, tiktok, ai_mapper, prev>>

UpdateProduct ==
  \E n \in 1..MaxItems, kind \in SingleKinds :
    LET r == update_product(tiktok, mock_id(n), ChannelProducts(n)[n], kind)
    IN
    /\ last' = [op |-> "update_product", kind |-> kind,
                result |-> r.result, log |-> r.log]
    /\ UNCHANGED <<main_state, Config, shopify, tiktok, ai_mapper, prev>>

UpdateOrderTracking ==
  \E order \in ChannelOrders, kind \in SingleKinds :
    LET r == update_order_tracking(tiktok, order.order_id, <<"T", "1">>, kind)
    IN
    /\ last' = [op |-> "update_order_tracking", kind |-> kind,
                result |-> r.result, log |-> r.log]
    /\ UNCHANGED <<main_state, Config, shopify, tiktok, ai_mapper, prev>>

\* the signing of the requests of get_orders, which passes a dict of query
\* parameters (lines 404-418), and of update_inventory, which passes none
GetOrdersParams == [limit |-> 50]
NoParams == [k \in {} |-> 0]
SignedRequest ==
  \E kind \in OrderKinds :
    \/ \E r \in {signed_retry_loop(tiktok, "GET", "/orders/list", <<>>,
                                    GetOrdersParams, TRUE, kind, 0, <<>>)} :
         /\ last' = [op |-> "signed_request", call |-> "get_orders",
                     kind |-> kind, keys |-> DOMAIN GetOrdersParams,
                     attempts |-> r]
         /\ UNCHANGED <<main_state, Config, shopify, tiktok, ai_mapper,
                        prev>>
    \/ \E r \in {signed_retry_loop(tiktok, "POST", "/inventory/update",
                                    <<"S", "1">>, NoParams, FALSE, kind, 0,
                                    <<>>)} :
         /\ last' = [op |-> "signed_request", call |-> "update_inventory",
                     kind |-> kind, keys |-> {}, attempts |-> r]
         /\ UNCHANGED <<main_state, Config, shopify, tiktok, ai_mapper,
                        prev>>

NextTikTok ==
  \/ SignedRequest
  \/ BulkUpdateInventory
  \/ BulkCreateProducts
  \/ GetOrders
  \/ UpdateInventory
  \/ CreateProduct
  \/ UpdateProduct
  \/ UpdateOrderTracking

SpecTikTok == InitTikTok /\ [][NextTikTok]_vars

(***************************************************************************)
(* The upstream client on its own.                                         *)
(***************************************************************************)
ShopifyStores == {<<"s", ".", "m">>, <<"s">>}
ShFailKinds == {"e401", "e403", "e500", "timeout"}
\* a failure of one request, of one request through all its retries, or of
\* every request from `first` on (count 0)
FailScripts(firsts) ==
  {[first |-> f, kind |-> k, count |-> c] :
     f \in firsts, k \in ShFailKinds, c \in {0, 1, Config.MAX_RETRIES}}
\* the stores of every size and paging mode that answer every request, and
\* the honest store of MaxCatalog products with failing requests
ProductEnvs(firsts) ==
  {[n |-> n, mode |-> mode, script |-> ShOk] :
     n \in 0..MaxCatalog, mode \in ServerModes}
    \cup {[n |-> MaxCatalog, mode |-> "honest", script |-> s] :
            s \in FailScripts(firsts)}
\* a store that answers every page request with its first page, after one
\* request that fails: each page of the page-number fallback is full
FullPageEnvs ==
  {[n |-> MaxCatalog, mode |-> "endless",
    script |-> [first |-> 1, kind |-> k, count |-> 1]] :
     k \in {"e401", "e500"}}
OrderEnvs ==
  {[m |-> m, limit |-> limit, script |-> ShOk] :
     m \in 0..MaxOrders, limit \in 1..MaxPageLimit}
    \cup {[m |-> MaxOrders, limit |-> MaxPageLimit, script |-> s] :
            s \in FailScripts({1})}
ProductIds == {str(1), <<"z">>}
ItemIdLists ==
  {<< <<"i", "1">> >>, << <<"i", "1">>, <<"j", "1">> >>,
   << <<"z">>, <<"i", "1">> >>}

InitShopify ==
  /\ Config \in [MAX_RETRIES : 0..MaxRetriesBound, BATCH_SIZE : {1},
                 TIKTOK_APP_KEY : {<<>>}, SHOPIFY_STORE : ShopifyStores]
  /\ shopify \in {ShopifyHandlerInit(d) : d \in BOOLEAN}
  /\ tiktok = NoOp
  /\ ai_mapper = AIMapperInit(FALSE)
  /\ prev = NoOp
  /\ scheduler = None
  /\ threads = NoThreads
  /\ _sync_bot_instance = None
  /\ last = NoOp

\* what the store answered to the request `entry` of the log: whether the
\* request succeeded, how many products the page held and whether its Link
\* header had a rel="next" link
PageAnswered(world, entry) ==
  IF entry.answer # "ok" THEN [ok |-> FALSE, items |-> 0, next |-> FALSE]
  ELSE [ok |-> TRUE,
        items |-> Len(products_page(world, entry.params)),
        next |-> \E l \in Range(products_links(world, entry.params)) :
                   l.rel = "next"]

GetAllProducts ==
  \E limit \in 1..MaxPageLimit, env \in ProductEnvs(1..2) \cup FullPageEnvs :
    \E r \in {get_all_products(shopify, limit,
                                World(env.n, 0, env.mode), env.script)} :
       /\ last' = [op |-> "get_all_products", raised |-> r.raised,
                   exc |-> r.exc, running |-> r.running,
                   result |-> r.products, log |-> r.log,
                   pages |-> [i \in DOMAIN r.log |->
                                PageAnswered(World(env.n, 0, env.mode),
                                             r.log[i])],
                   mode |-> env.mode]
       /\ UNCHANGED <<main_state, Config, shopify, tiktok, ai_mapper, prev>>

GetProductById ==
  \E product_id \in ProductIds, script \in {ShOk} \cup FailScripts({1}) :
    LET r == get_product_by_id(shopify, product_id,
                               World(MaxCatalog, 0, "honest"), script)
    IN /\ last' = [op |-> "get_product_by_id", raised |-> r.raised,
                   exc |-> "", running |-> FALSE,
                   result |-> r.product, log |-> r.log]
       /\ UNCHANGED <<main_state, Config, shopify, tiktok, ai_mapper, prev>>

GetInventoryLevels ==
  \/ \E env \in ProductEnvs({1}) :
       \E r \in {get_inventory_levels(shopify, <<>>,
                                      World(env.n, 0, env.mode), env.script)},
          p \in {get_all_products(shopify, DefaultLimit,
                                  World(env.n, 0, env.mode), env.script)} :
          /\ last' = [op |-> "get_inventory_levels", raised |-> r.raised,
                      exc |-> r.exc, running |-> r.running,
                      result |-> r.levels, log |-> r.log,
                      ids |-> <<>>, fetched |-> p.products,
                      skipped |-> skipped_variants(p.products)]
          /\ UNCHANGED <<main_state, Config, shopify, tiktok, ai_mapper, prev>>
  \/ \E ids \in ItemIdLists, script \in {ShOk} \cup FailScripts(1..2) :
       \E r \in {get_inventory_levels(shopify, ids,
                                      World(MaxCatalog, 0, "honest"), script)} :
          /\ last' = [op |-> "get_inventory_levels", raised |-> r.raised,
                      exc |-> r.exc, running |-> r.running,
                      result |-> r.levels, log |-> r.log,
                      ids |-> ids, fetched |-> <<>>,
                      skipped |-> skipped_variants(<<>>)]
          /\ UNCHANGED <<main_state, Config, shopify, tiktok, ai_mapper, prev>>

GetRecentOrders ==
  \E env \in OrderEnvs :
    LET r == get_recent_orders(shopify, env.limit, "open",
                               World(0, env.m, "honest"), env.script)
    IN /\ last' = [op |-> "get_recent_orders", raised |-> r.raised,
                   exc |-> r.exc, running |-> FALSE,
                   result |-> r.orders, log |-> r.log]
       /\ UNCHANGED <<main_state, Config, shopify, tiktok, ai_mapper, prev>>

NextShopify ==
  GetAllProducts \/ GetProductById \/ GetInventoryLevels \/ GetRecentOrders

SpecShopify == InitShopify /\ [][NextShopify]_vars

(***************************************************************************)
(* _retry_request of both clients on its own.                              *)
(***************************************************************************)
TkEndpoints == {"/inventory/update", "/orders/list"}
ShEndpoints ==
  {ProductsEndpoint, [path |-> "/orders.json", id |-> None],
   [path |-> "/products/{id}.json", id |-> str(1)]}

\* a 2xx answer whose body does not decode: to every request, or to the
\* first one only
MalformedScripts ==
  {[first |-> 1, kind |-> "bad_json", count |-> c] : c \in {0, 1}}

InitRetry ==
  /\ Config \in [MAX_RETRIES : 0..MaxRetriesBound, BATCH_SIZE : {1},
                 TIKTOK_APP_KEY : {<<"a", "p", "p", "_", "1">>},
                 SHOPIFY_STORE : ShopifyStores]
  /\ shopify = ShopifyHandlerInit(FALSE)
  /\ tiktok \in {TikTokHandlerInit(FALSE, t) : t \in BOOLEAN}
  /\ ai_mapper = AIMapperInit(FALSE)
  /\ prev = NoOp
  /\ scheduler = None
  /\ threads = NoThreads
  /\ _sync_bot_instance = None
  /\ last = NoOp

TkRetryRequest ==
  \E endpoint \in TkEndpoints, kind \in TkKinds :
    LET r == tiktok_retry_request(tiktok, endpoint, <<>>, kind, <<>>) IN
    /\ last' = [op |-> "tiktok._retry_request", kind |-> kind,
                raised |-> r.raised, exc |-> r.exc, is_none |-> r.is_none,
                log |-> r.log]
    /\ UNCHANGED <<main_state, Config, shopify, tiktok, ai_mapper, prev>>

ShRetryRequest ==
  \E endpoint \in ShEndpoints,
     script \in {ShOk} \cup FailScripts(1..2) \cup MalformedScripts :
    LET r == shopify_retry_request(shopify, endpoint, [limit |-> 1],
                                   World(1, 1, "honest"), script, <<>>)
    IN /\ last' = [op |-> "shopify._retry_request",
                   kind |-> IF script.first = 1 /\ script.count = 0
                            THEN script.kind ELSE "mixed",
                   raised |-> r.raised, exc |-> r.exc, is_none |-> r.is_none,
                   log |-> r.log]
       /\ UNCHANGED <<main_state, Config, shopify, tiktok, ai_mapper, prev>>

NextRetry == TkRetryRequest \/ ShRetryRequest

SpecRetry == InitRetry /\ [][NextRetry]_vars

(***************************************************************************)
(* The orchestrator.                                                       *)
(***************************************************************************)
OrderNullItems == [order_id |-> <<"o", "3">>, line_items |-> None]
OrderNull == [null |-> TRUE]
SyncChannelOrders == ChannelOrders \cup {OrderNullItems, OrderNull}
SyncPlans(kinds) == {[at |-> at, kind |-> k] : at \in 0..2, k \in kinds}

\* SyncBot.__init__: the three components share dry_run
InitSync ==
  /\ Config \in [MAX_RETRIES : {0, 2}, BATCH_SIZE : {MaxBatchSize},
                 TIKTOK_APP_KEY : {<<>>, <<"a", "p", "p", "_", "1">>},
                 SHOPIFY_STORE : {<<"s", ".", "m">>}]
  /\ \E dry \in BOOLEAN, token \in BOOLEAN :
       /\ shopify = ShopifyHandlerInit(dry)
       /\ tiktok = TikTokHandlerInit(dry, token)
       /\ ai_mapper = AIMapperInit(dry)
  /\ prev = NoOp
  /\ scheduler = None
  /\ threads = NoThreads
  /\ _sync_bot_instance = None
  /\ last = NoOp

SyncBot == [shopify |-> shopify, tiktok |-> tiktok, ai_mapper |-> ai_mapper]

\* the store fails, or the channel fails, or the AI transport fails: one of
\* them in one operation
QuietStore == [n |-> MaxCatalog, mode |-> "honest", script |-> ShOk]
QuietPlan == [at |-> 0, kind |-> "ok"]
SyncEnvs(kinds) ==
  {[env |-> env, plan |-> QuietPlan, ai_script |-> OkScript] :
     env \in ProductEnvs({1})}
    \cup {[env |-> QuietStore, plan |-> plan, ai_script |-> OkScript] :
            plan \in SyncPlans(kinds)}
    \cup {[env |-> QuietStore, plan |-> QuietPlan, ai_script |-> FailScript]}

\* the inventory_quantity the store reports for a tracked variant with a
\* SKU: in stock, sold out, oversold
StockReports == {5, 0, -1}
StockWorld(q) ==
  [products |-> <<[id |-> str(1), title |-> <<"A">>,
                   variants |-> <<[RawVarFull(1) EXCEPT
                                     !.inventory_quantity = q]>>]>>,
   orders |-> <<>>, mode |-> "honest"]

SyncInventory ==
  \/ \E e \in SyncEnvs(UpdateKinds) :
       \E r \in {sync_inventory(SyncBot, World(e.env.n, 0, e.env.mode),
                                 e.env.script, e.plan)} :
          /\ last' = [op |-> "sync_inventory", raised |-> r.raised,
                      caught |-> r.caught, running |-> r.running,
                      results |-> r.results, levels |-> r.levels,
                      sent |-> r.sent, returned |-> r.returned]
          /\ UNCHANGED <<main_state, Config, shopify, tiktok, ai_mapper,
                         prev>>
  \/ \E q \in StockReports :
       \E r \in {sync_inventory(SyncBot, StockWorld(q), ShOk, QuietPlan)} :
          /\ last' = [op |-> "sync_inventory", raised |-> r.raised,
                      caught |-> r.caught, running |-> r.running,
                      results |-> r.results, levels |-> r.levels,
                      sent |-> r.sent, returned |-> r.returned]
          /\ UNCHANGED <<main_state, Config, shopify, tiktok, ai_mapper,
                         prev>>

SyncProducts ==
  \E limit \in 0..MaxPageLimit, e \in SyncEnvs(CreateKinds) :
    \E r \in {sync_products(SyncBot, limit, World(e.env.n, 0, e.env.mode),
                             e.env.script, e.ai_script, e.plan)} :
       /\ ai_mapper' = r.ai_mapper
       /\ last' = [op |-> "sync_products", raised |-> r.raised,
                   caught |-> r.caught, running |-> r.running,
                   results |-> r.results, sent |-> r.sent,
                   limit |-> limit, fetched |-> r.products]
       /\ UNCHANGED <<main_state, Config, shopify, tiktok, prev>>

SyncOrders ==
  \E channel_orders \in SeqsUpTo(SyncChannelOrders, MaxOrders),
     kind \in {"ok", "timeout", "http_401"} :
    \E r \in {sync_orders(SyncBot, channel_orders, kind)},
       f \in {get_orders(SyncBot.tiktok, channel_orders, kind)} :
       /\ last' = [op |-> "sync_orders", raised |-> r.raised,
                   caught |-> r.caught, running |-> r.running,
                   results |-> r.results, sent |-> r.sent,
                   fetched |-> f.orders]
       /\ UNCHANGED <<main_state, Config, shopify, tiktok, ai_mapper, prev>>

\* how one operation of a full sync is treated: nothing fails, the store
\* fails every request, the store pages without end, the channel fails
\* every chunk, the channel refuses the first chunk
FullSyncEnvs ==
  {[env |-> QuietStore, plan |-> QuietPlan, ai_script |-> OkScript],
   [env |-> [n |-> MaxCatalog, mode |-> "honest",
             script |-> [first |-> 1, kind |-> "e500", count |-> 0]],
    plan |-> QuietPlan, ai_script |-> OkScript],
   [env |-> [n |-> 1, mode |-> "endless", script |-> ShOk],
    plan |-> QuietPlan, ai_script |-> OkScript],
   [env |-> QuietStore, plan |-> [at |-> 0, kind |-> "timeout"],
    ai_script |-> OkScript],
   [env |-> QuietStore, plan |-> [at |-> 1, kind |-> "code_fail"],
    ai_script |-> FailScript]}

RunFullSync ==
  \E inv \in FullSyncEnvs, prod \in FullSyncEnvs :
    \E r \in {run_full_sync(SyncBot, inv, prod)} :
       /\ ai_mapper' = r.ai_mapper
       /\ last' = [op |-> "run_full_sync", raised |-> r.raised,
                   running |-> r.running, calls |-> r.calls,
                   inv_results |-> r.inv_results,
                   prod_results |-> r.prod_results]
       /\ UNCHANGED <<main_state, Config, shopify, tiktok, prev>>

NextSync == SyncInventory \/ SyncProducts \/ SyncOrders \/ RunFullSync

SpecSync == InitSync /\ [][NextSync]_vars

(***************************************************************************)
(* The process of main(): the bot is stored in the module global, the      *)
(* scheduler is started and stopped, /health is requested, and the order   *)
(* sync runs in between.                                                   *)
(***************************************************************************)
InitHealth ==
  /\ Config = [MAX_RETRIES |-> 2, BATCH_SIZE |-> MaxBatchSize,
               TIKTOK_APP_KEY |-> <<>>, SHOPIFY_STORE |-> <<"s", ".", "m">>]
  /\ \E dry \in BOOLEAN, token \in BOOLEAN :
       /\ shopify = ShopifyHandlerInit(dry)
       /\ tiktok = TikTokHandlerInit(dry, token)
       /\ ai_mapper = AIMapperInit(dry)
  /\ scheduler = None
  /\ threads = NoThreads
  /\ _sync_bot_instance = None
  /\ prev = NoOp
  /\ last = NoOp

\* main(), lines 408-413
Register ==
  /\ _sync_bot_instance = None
  /\ _sync_bot_instance' = TheBot
  /\ last' = [op |-> "main"]
  /\ UNCHANGED <<scheduler, threads, Config, shopify, tiktok, ai_mapper, prev>>

StartScheduler ==
  LET r == start_scheduler(scheduler) IN
  /\ scheduler' = r.scheduler
  /\ last' = [op |-> "start_scheduler", raised |-> r.raised]
  /\ UNCHANGED <<_sync_bot_instance, threads, Config, shopify, tiktok,
                 ai_mapper, prev>>

StopScheduler ==
  LET r == stop_scheduler(scheduler) IN
  /\ scheduler' = r.scheduler
  /\ last' = [op |-> "stop_scheduler", raised |-> r.raised]
  /\ UNCHANGED <<_sync_bot_instance, threads, Config, shopify, tiktok,
                 ai_mapper, prev>>

Health ==
  LET r == health(_sync_bot_instance, scheduler, ai_mapper) IN
  /\ last' = [op |-> "health", status_code |-> r.status_code,
              json |-> r.json]
  /\ UNCHANGED <<main_state, Config, shopify, tiktok, ai_mapper, prev>>

NextHealth ==
  Register \/ StartScheduler \/ StopScheduler \/ Health \/ SyncOrders

SpecHealth == InitHealth /\ [][NextHealth]_vars

(***************************************************************************)
(* The pure functions of the mapping engine: _generate_cache_key and       *)
(* _fallback_mapping applied to a product P and to a variation Q of it.    *)
(***************************************************************************)
\* n characters c
Rep(c, n) == [i \in 1..n |-> c]
\* descriptions: empty, short, exactly KeyDescLen characters, and two that
\* agree on their first KeyDescLen characters
PureDescriptions ==
  {<<>>, <<"d", "e">>, Rep("d", KeyDescLen),
   Rep("d", KeyDescLen) \o <<"a">>, Rep("d", KeyDescLen) \o <<"b">>}
\* tag lists: none; plain; a hashtag and a tag with a space inside; a tag
\* with spaces around it and one with a tab inside; more than
\* FallbackMaxTags tags
PureTags ==
  {<<>>,
   << <<"y", "2", "k">>, <<"t", "r", "e", "n", "d">> >>,
   << <<"#", "a">>, <<"a", " ", "b">> >>,
   << <<" ", "t", "r", " ">>, <<"a", "\t", "b">> >>,
   [i \in 1..(FallbackMaxTags + 1) |-> <<"t", Digits[i + 1]>>]}
PureVariants == {<<>>, <<VarFull, VarNoSku>>, <<VarNoSku, VarRepriced>>}
PureProducts ==
  {[id |-> <<"1">>, title |-> title, description |-> description,
    handle |-> <<"h">>, vendor |-> <<"w">>, product_type |-> <<"t">>,
    tags |-> tags, images |-> << <<"u">> >>, variants |-> variants,
    status |-> <<"a">>, updated_at |-> <<"1">>] :
     title \in {<<"A">>, <<>>}, description \in PureDescriptions,
     tags \in PureTags, variants \in PureVariants}
\* Q: P itself, or P with one field changed
Variations(P) ==
  {P,
   [P EXCEPT !.title = <<"B">>],
   [P EXCEPT !.id = <<"2">>],
   [P EXCEPT !.product_type = <<"o">>],
   [P EXCEPT !.updated_at = <<"2">>],
   [P EXCEPT !.vendor = <<"v">>, !.variants = <<>>],
   [P EXCEPT !.tags = Reverse(@)],
   [P EXCEPT !.tags = Tail(@ \o << <<"a">> >>)],
   [P EXCEPT !.description = <<"e">> \o @],
   [P EXCEPT !.description = Take(@, KeyDescLen) \o <<"e">>]}

\* a mapper whose cache already holds an entry under P's key
Primed(dry, P) ==
  [dry_run |-> dry, has_cache |-> TRUE,
   _cache |-> (_generate_cache_key(P) :> _fallback_mapping(ProdBare))]

InitPure ==
  /\ Config = [MAX_RETRIES |-> 1, BATCH_SIZE |-> 1, TIKTOK_APP_KEY |-> <<>>]
  /\ shopify = NoOp
  /\ tiktok = NoOp
  /\ \E P \in PureProducts :
       /\ \E Q \in Variations(P) : prev = [op |-> "input", P |-> P, Q |-> Q]
       /\ ai_mapper \in {AIMapperInit(FALSE), Primed(FALSE, P)}
  /\ scheduler = None
  /\ threads = NoThreads
  /\ _sync_bot_instance = None
  /\ last = NoOp

GenerateCacheKey ==
  /\ last' = [op |-> "_generate_cache_key",
              key_P |-> _generate_cache_key(prev.P),
              key_Q |-> _generate_cache_key(prev.Q),
              again |-> _generate_cache_key(prev.P)]
  /\ UNCHANGED <<main_state, Config, shopify, tiktok, ai_mapper, prev>>

\* _fallback_mapping reads no attribute of self and calls nothing on it
FallbackMapping ==
  /\ last' = [op |-> "_fallback_mapping",
              result |-> _fallback_mapping(prev.P),
              again |-> _fallback_mapping(prev.P),
              self |-> ai_mapper, calls |-> 0]
  /\ UNCHANGED <<main_state, Config, shopify, tiktok, ai_mapper, prev>>

NextPure == GenerateCacheKey \/ FallbackMapping

SpecPure == InitPure /\ [][NextPure]_vars

(***************************************************************************)
(* ai_mapper.py, _call_openai lines 109-118: what is parsed of the content *)
(* of one response.  json.loads is modelled on the JSON texts the model    *)
(* uses: the object and the array below, with any white space between      *)
(* their tokens; every other content of the model is no JSON text.         *)
(***************************************************************************)
\* the grave accent, which a TLA+ string cannot hold, is written ^
Grave == "^"
\* the three grave accents that open and close a fenced code block
Fence == <<Grave, Grave, Grave>>

\* str.join with the newline as separator (line 115)
RECURSIVE join_lines(_)
join_lines(l) ==
  IF l = <<>> THEN <<>>
  ELSE IF Len(l) = 1 THEN l[1]
  ELSE l[1] \o <<"\n">> \o join_lines(Tail(l))

\* lines 112-115
strip_code_block(content) ==
  IF startswith(content, Fence)
  THEN LET lines == split(content, "\n")
       IN IF Len(lines) > 2
          THEN join_lines(SubSeq(lines, 2, Len(lines) - 1))
          ELSE content
  ELSE content

\* the text without the white space between its tokens
RECURSIVE compact(_)
compact(text) ==
  IF text = <<>> THEN <<>>
  ELSE IF Head(text) \in Whitespace THEN compact(Tail(text))
  ELSE <<Head(text)>> \o compact(Tail(text))

\* the JSON object whose one member, hashtags, is the array of #a and #b
ObjectMember ==
  <<"\"", "h", "a", "s", "h", "t", "a", "g", "s", "\"", ":", "[", "\"", "#",
    "a", "\"", ",", "\"", "#", "b", "\"", "]">>
ObjectText == <<"{">> \o ObjectMember \o <<"}">>
ArrayText == <<"[", "]">>

\* json.loads(content): JSONDecodeError on a content that is no JSON text
loads(content) ==
  CASE compact(content) = ObjectText ->
         [raised |-> FALSE, value |-> json_loads("json_partial")]
    [] compact(content) = ArrayText ->
         [raised |-> FALSE, value |-> json_loads("json_array")]
    [] OTHER -> [raised |-> TRUE, value |-> [kind |-> "null"]]

\* lines 109-117: the content handed to json.loads and what it returns
parse_response(raw) ==
  LET content == strip_code_block(strip(raw))
  IN [content |-> content] @@ loads(content)

\* how the attempt loop sees a response with this content
response_kind(raw) ==
  IF parse_response(raw).raised THEN "bad_json"
  ELSE IF parse_response(raw).value.kind = "array" THEN "json_array"
  ELSE "json_partial"

(***************************************************************************)
(* The response parsing on its own: a payload, bare or between an opening  *)
(* and a closing fence, is the content of every response of one            *)
(* _call_openai.                                                           *)
(***************************************************************************)
Payloads ==
  {ObjectText,
   <<"{", "\n">> \o ObjectMember \o <<"\n", "}">>,
   <<"{", "\n", " ", " ">> \o ObjectMember \o <<"}">>,
   ArrayText,
   <<"[", "\n", "]">>,
   <<"{">>}
Openings == {Fence, Fence \o <<"j", "s", "o", "n">>}
\* a payload in a fenced block: the fences on lines of their own, or sharing
\* a line with the payload; white space around the response
Fenced ==
  {[fenced |-> TRUE, payload |-> payload,
    own_lines |-> after_open = <<"\n">> /\ before_close = <<"\n">>,
    raw |-> pad \o opening \o after_open \o payload \o before_close
              \o Fence \o pad] :
     payload \in Payloads, opening \in Openings,
     after_open \in {<<"\n">>, <<" ">>, <<>>},
     before_close \in {<<"\n">>, <<>>}, pad \in {<<>>, <<"\n">>}}
Bare ==
  {[fenced |-> FALSE, payload |-> payload, own_lines |-> FALSE,
    raw |-> pad \o payload \o pad] :
     payload \in Payloads, pad \in {<<>>, <<"\n">>}}

InitParse ==
  /\ Config = [MAX_RETRIES |-> 1, BATCH_SIZE |-> 1, TIKTOK_APP_KEY |-> <<>>]
  /\ shopify = NoOp
  /\ tiktok = NoOp
  /\ ai_mapper \in {AIMapperInit(d) : d \in BOOLEAN}
  /\ \E input \in Fenced \cup Bare : prev = [op |-> "input"] @@ input
  /\ scheduler = None
  /\ threads = NoThreads
  /\ _sync_bot_instance = None
  /\ last = NoOp

ParseResponse ==
  LET r == parse_response(prev.raw) IN
  /\ last' = [op |-> "parse_response", content |-> r.content,
              raised |-> r.raised, value |-> r.value]
  /\ UNCHANGED <<main_state, Config, shopify, tiktok, ai_mapper, prev>>

\* every response of the call has the content prev.raw
CallOpenAI ==
  LET r == _call_openai(ai_mapper, <<>>,
                        [i \in 1..AIMaxRetries |-> response_kind(prev.raw)])
  IN /\ last' = [op |-> "_call_openai", raised |-> r.raised,
                 calls |-> r.calls, value |-> r.value]
     /\ UNCHANGED <<main_state, Config, shopify, tiktok, ai_mapper, prev>>

NextParse == ParseResponse \/ CallOpenAI

SpecParse == InitParse /\ [][NextParse]_vars

(***************************************************************************)
(* main(): the main thread and the scheduler's job thread.                 *)
(*                                                                         *)
(* main() starts the BackgroundScheduler (line 428) and then runs the      *)
(* initial sync on the main thread (lines 455-465).  The scheduler runs    *)
(* run_full_sync on a thread of its pool every `interval` seconds; with    *)
(* the job defaults (max_instances = 1) it skips a run while the previous  *)
(* run of the job is still going.  It knows nothing of the main thread.    *)
(* A step of a sync takes any amount of time (requests, backoff sleeps).   *)
(* The position of a thread: pc, the index i of the product being mapped,  *)
(* and found, the value `hasattr(self, '_cache')` had at line 206.         *)
(***************************************************************************)
Threads == {"main", "job"}
Thread(pc, i) == [pc |-> pc, i |-> i, found |-> FALSE]
\* the products sync_products fetches and maps
SyncCatalog == <<ProdTagged, ProdBare>>
SyncPcs == {"sync_inventory", "sync_products", "check", "call", "test",
            "make", "insert"}
CachePcs == {"check", "test", "make", "insert"}

InitMain ==
  /\ Config = [MAX_RETRIES |-> 1, BATCH_SIZE |-> 1, TIKTOK_APP_KEY |-> <<>>]
  /\ shopify = NoOp
  /\ tiktok = NoOp
  /\ ai_mapper = AIMapperInit(FALSE)
  /\ prev = NoOp
  /\ scheduler = None
  /\ _sync_bot_instance = TheBot
  /\ threads = [main |-> Thread("start", 0), job |-> Thread("idle", 0),
                now |-> 0, interval |-> 0, next_run_time |-> 0]
  /\ last = NoOp

Moved(t, pc, i) ==
  /\ threads' = [threads EXCEPT ![t] = Thread(pc, i)]
  /\ last' = [op |-> "step", thread |-> t, from |-> threads[t].pc]
\* map_product returned for product i: the next product, or the end of
\* run_full_sync; the main thread then waits (lines 469-471), the job
\* thread goes back to the pool
Returned(t, i) ==
  IF i < Len(SyncCatalog) THEN Moved(t, "check", i + 1)
  ELSE Moved(t, IF t = "main" THEN "waiting" ELSE "idle", 0)

\* main, line 428: bot.start_scheduler(interval=args.interval)
MainStartScheduler ==
  \E interval \in 1..MaxInterval :
    /\ threads.main.pc = "start"
    /\ scheduler' = start_scheduler(scheduler).scheduler
    /\ threads' = [threads EXCEPT !.main = Thread("initial", 0),
                                  !.interval = interval,
                                  !.next_run_time = threads.now + interval]
    /\ last' = [op |-> "start_scheduler", thread |-> "main",
                from |-> "start"]
    /\ UNCHANGED <<_sync_bot_instance, Config, shopify, tiktok, ai_mapper,
                   prev>>

\* main, lines 455-457: the initial full sync, on the main thread
MainInitialSync ==
  /\ threads.main.pc = "initial"
  /\ Moved("main", "sync_inventory", 0)
  /\ UNCHANGED <<scheduler, _sync_bot_instance, Config, shopify, tiktok,
                 ai_mapper, prev>>

\* the clock
Tick ==
  /\ threads.now < MaxClock
  /\ threads' = [threads EXCEPT !.now = @ + 1]
  /\ last' = [op |-> "tick", thread |-> "clock", from |-> "tick"]
  /\ UNCHANGED <<scheduler, _sync_bot_instance, Config, shopify, tiktok,
                 ai_mapper, prev>>

\* the interval trigger is due and the job is not running: the scheduler
\* runs run_full_sync on a pool thread
JobFires ==
  /\ scheduler = Running
  /\ threads.now >= threads.next_run_time
  /\ threads.job.pc = "idle"
  /\ threads' = [threads EXCEPT !.job = Thread("sync_inventory", 0),
                                !.next_run_time = @ + threads.interval]
  /\ last' = [op |-> "run_full_sync", thread |-> "job", from |-> "idle"]
  /\ UNCHANGED <<scheduler, _sync_bot_instance, Config, shopify, tiktok,
                 ai_mapper, prev>>

\* the trigger is due while the previous run of the job is going: skipped
JobSkipped ==
  /\ scheduler = Running
  /\ threads.now >= threads.next_run_time
  /\ threads.job.pc # "idle"
  /\ threads' = [threads EXCEPT !.next_run_time = @ + threads.interval]
  /\ last' = [op |-> "skipped", thread |-> "job", from |-> threads.job.pc]
  /\ UNCHANGED <<scheduler, _sync_bot_instance, Config, shopify, tiktok,
                 ai_mapper, prev>>

\* run_full_sync, line 245: sync_inventory, which maps nothing
ThreadSyncInventory(t) ==
  /\ threads[t].pc = "sync_inventory"
  /\ Moved(t, "sync_products", 0)
  /\ UNCHANGED <<scheduler, _sync_bot_instance, Config, shopify, tiktok,
                 ai_mapper, prev>>

\* run_full_sync, line 249: sync_products fetches the products and starts
\* batch_map_products on the first
ThreadSyncProducts(t) ==
  /\ threads[t].pc = "sync_products"
  /\ Moved(t, "check", 1)
  /\ UNCHANGED <<scheduler, _sync_bot_instance, Config, shopify, tiktok,
                 ai_mapper, prev>>

\* map_product, lines 145-152: the cache check
CacheCheck(t) ==
  /\ threads[t].pc = "check"
  /\ IF cache_lookup(ai_mapper,
                     _generate_cache_key(SyncCatalog[threads[t].i]), TRUE)
     THEN Returned(t, threads[t].i)
     ELSE Moved(t, "call", threads[t].i)
  /\ UNCHANGED <<scheduler, _sync_bot_instance, Config, shopify, tiktok,
                 ai_mapper, prev>>

\* map_product, lines 154-203: the AI call; when it fails the fallback
\* mapping is returned and nothing is stored
AICall(t) ==
  \E ok \in BOOLEAN :
    /\ threads[t].pc = "call"
    /\ IF ok THEN Moved(t, "test", threads[t].i)
       ELSE Returned(t, threads[t].i)
    /\ UNCHANGED <<scheduler, _sync_bot_instance, Config, shopify, tiktok,
                   ai_mapper, prev>>

\* map_product, line 206: `if not hasattr(self, '_cache')`
CacheTest(t) ==
  /\ threads[t].pc = "test"
  /\ threads' = [threads EXCEPT
                   ![t] = [pc |-> IF ai_mapper.has_cache THEN "insert"
                                  ELSE "make",
                           i |-> threads[t].i,
                           found |-> ai_mapper.has_cache]]
  /\ last' = [op |-> "step", thread |-> t, from |-> "test"]
  /\ UNCHANGED <<scheduler, _sync_bot_instance, Config, shopify, tiktok,
                 ai_mapper, prev>>

\* map_product, line 207: `self._cache = {}`
CacheCreate(t) ==
  /\ threads[t].pc = "make"
  /\ ai_mapper' = [ai_mapper EXCEPT !.has_cache = TRUE, !._cache = <<>>]
  /\ Moved(t, "insert", threads[t].i)
  /\ UNCHANGED <<scheduler, _sync_bot_instance, Config, shopify, tiktok,
                 prev>>

\* map_product, line 208: `self._cache[cache_key] = tiktok_product`
CacheInsert(t) ==
  /\ threads[t].pc = "insert"
  /\ \E r \in {map_product(AIMapperInit(FALSE), SyncCatalog[threads[t].i],
                            FALSE, OkScript)} :
       ai_mapper' = cache_store(ai_mapper,
                                _generate_cache_key(SyncCatalog[threads[t].i]),
                                TRUE, r.result)
  /\ Returned(t, threads[t].i)
  /\ UNCHANGED <<scheduler, _sync_bot_instance, Config, shopify, tiktok,
                 prev>>

NextMain ==
  \/ MainStartScheduler
  \/ MainInitialSync
  \/ Tick
  \/ JobFires
  \/ JobSkipped
  \/ \E t \in Threads :
       \/ ThreadSyncInventory(t)
       \/ ThreadSyncProducts(t)
       \/ CacheCheck(t)
       \/ AICall(t)
       \/ CacheTest(t)
       \/ CacheCreate(t)
       \/ CacheInsert(t)

SpecMain == InitMain /\ [][NextMain]_vars

(***************************************************************************)
(* Claims about the mapping engine.                                        *)
(***************************************************************************)
ChannelFields ==
  {"title", "description", "hashtags", "images", "variants", "shopify_id",
   "shopify_handle"}
AIFailure == {"raised", "array", "null"}
InCache(key) == ai_mapper.has_cache /\ key \in DOMAIN ai_mapper._cache

\* C1: map_product returns a ChannelProduct and never raises, for every
\* product (empty or missing fields included) and every behaviour of the AI
\* service; when the AI step failed the result is the fallback mapping.
C1_MapProductNeverRaises ==
  last.op = "map_product" =>
    /\ ~last.raised
    /\ DOMAIN last.result = ChannelFields
    /\ (last.ai \in AIFailure =>
          last.result = _fallback_mapping(last.product))

C1_Witness ==
  /\ last.op = "map_product"
  /\ last.product = ProdBare
  /\ last.ai = "raised"
  /\ last.calls = AIMaxRetries
  /\ last.result.hashtags = DefaultHashtags

\* C2: batch_map_products never raises and returns one entry per product,
\* entry i mapping products[i]; a product whose AI step failed is there as
\* its fallback mapping.
C2_BatchKeepsOrderAndCount ==
  last.op = "batch_map_products" =>
    /\ ~last.raised
    /\ Len(last.results) = Len(last.products)
    /\ \A i \in 1..Len(last.products) :
         /\ last.results[i].shopify_id = Get(last.products[i], "id", None)
         /\ (last.ai[i] \in AIFailure =>
               last.results[i] = _fallback_mapping(last.products[i]))

C2_Witness ==
  /\ last.op = "batch_map_products"
  /\ last.products = <<ProdTagged, ProdBare, ProdTagged>>
  /\ last.ai = <<"object", "array", "not_called">>
  /\ Len(last.results) = 3
  /\ last.results[2] = _fallback_mapping(ProdBare)
  /\ last.results[3].shopify_id = ProdTagged.id

SameKeyTwice ==
  /\ prev.op = "map_product"
  /\ last.op = "map_product"
  /\ prev.use_cache
  /\ last.use_cache
  /\ prev.key = last.key

\* C3 as claimed: two map_product calls of one fingerprint with use_cache
\* invoke the AI transport at most once in total, whatever the transport
\* returned on the first call; a cache hit makes no AI invocation.
C3_AtMostOneAICall ==
  /\ (SameKeyTwice => prev.calls + last.calls <= 1)
  /\ (last.op = "map_product" /\ last.path = "hit" => last.calls = 0)

\* C3 amended: a cache hit makes no AI invocation; when the first of the
\* two calls returned through the AI path or the cache, the second is a
\* cache hit, so both make at most max_retries invocations in total and at
\* most one when the first answer parsed.
C3_CacheHitAvoidsAICall ==
  /\ (last.op = "map_product" /\ last.path = "hit" => last.calls = 0)
  /\ (SameKeyTwice /\ prev.path \in {"ai", "hit"} =>
        /\ last.path = "hit"
        /\ prev.calls + last.calls <= AIMaxRetries
        /\ (prev.calls <= 1 => prev.calls + last.calls <= 1))
  /\ (SameKeyTwice => last.calls <= AIMaxRetries)

C3_Witness ==
  /\ SameKeyTwice
  /\ ~ai_mapper.dry_run
  /\ prev.path = "ai"
  /\ prev.calls = 1
  /\ last.path = "hit"
  /\ last.product # ProdTagged

\* C4 as claimed: after any map_product(P, use_cache=true), AI path or
\* fallback path, the cache holds fingerprint(P), until clear_cache.
C4_CachedAfterAnyMapping ==
  /\ (last.op = "map_product" /\ last.use_cache => InCache(last.key))
  /\ (prev.op = "map_product" /\ prev.use_cache /\ last.op # "clear_cache"
        => InCache(prev.key))

CachedAfterAIMapping ==
  last.op = "map_product" /\ last.use_cache /\ last.path \in {"ai", "hit"}
    => InCache(last.key)

EntryStays ==
  \A key \in DOMAIN ai_mapper._cache :
    last'.op # "clear_cache" =>
      /\ InCache(key)'
      /\ ai_mapper'._cache[key] = ai_mapper._cache[key]

\* C4 amended: after a map_product(P, use_cache=true) that returned through
\* the AI path (or a cache hit) the cache holds fingerprint(P), and an entry
\* stays, unchanged, until clear_cache; a call that fell back stores nothing.
C4_CachedAfterAIMapping == []CachedAfterAIMapping /\ [][EntryStays]_vars

C4_Witness ==
  /\ last.op = "map_product"
  /\ last.use_cache
  /\ last.path = "ai"
  /\ last.product = ProdRepriced
  /\ prev.op = "map_product"
  /\ prev.path = "ai"
  /\ prev.key # last.key
  /\ InCache(prev.key)
  /\ InCache(last.key)

(***************************************************************************)
(* Claims about the downstream client.                                     *)
(***************************************************************************)
Live == ~tiktok.mock_mode /\ ~tiktok.dry_run

\* the k-th chunk of the items of the last bulk call
Chunk(k) == Batch(last.items, (k - 1) * Config.BATCH_SIZE)
ChunkCount == NumChunks(Len(last.items))
\* the requests sent for chunk k, as indexes of the log
Requests(k, payload(_)) ==
  {i \in DOMAIN last.log : last.log[i].data = payload(Chunk(k))}
\* chunk k was requested and its last request did not succeed
RequestFailed(k, payload(_)) ==
  LET rq == Requests(k, payload) IN
  /\ rq # {}
  /\ \E i \in rq : (\A j \in rq : j <= i) /\ last.log[i].answer \notin TkOk
RequestSucceeded(k, payload(_)) ==
  \E i \in Requests(k, payload) : last.log[i].answer \in TkOk

UpdatePayload(batch) ==
  [j \in 1..Len(batch) |->
     [sku_id |-> batch[j].sku, quantity |-> batch[j].quantity]]
CreatePayload(batch) == batch

\* C5: in live mode bulk_update_inventory is fail-fast: when the request of
\* chunk k fails the call returns False and no later chunk is requested; it
\* returns True only if the request of every chunk succeeded.
C5_BulkUpdateFailFast ==
  last.op = "bulk_update_inventory" /\ Live =>
    /\ \A k \in 1..ChunkCount :
         RequestFailed(k, UpdatePayload) =>
           /\ last.result = FALSE
           /\ \A j \in (k + 1)..ChunkCount : Requests(j, UpdatePayload) = {}
    /\ (last.result = TRUE =>
          \A k \in 1..ChunkCount : RequestSucceeded(k, UpdatePayload))

C5_Witness ==
  /\ last.op = "bulk_update_inventory"
  /\ Live
  /\ Config.MAX_RETRIES = 2
  /\ ChunkCount = 3
  /\ RequestSucceeded(1, UpdatePayload)
  /\ RequestFailed(2, UpdatePayload)
  /\ last.kinds[3] = "ok"
  /\ Len(last.log) = 3
  /\ last.result = FALSE

Sum(f, S) ==
  LET RECURSIVE sum(_)
      sum(T) == IF T = {} THEN 0
                ELSE LET x == CHOOSE y \in T : TRUE IN f[x] + sum(T \ {x})
  IN sum(S)

\* the per-item results the channel gave for chunk k
ItemResults(k) ==
  LET i == CHOOSE i \in Requests(k, CreatePayload) :
             last.log[i].answer \in TkOk
  IN batch_results(TkResponse(last.log[i].answer), Chunk(k))

\* C6 as claimed: in live mode bulk_create_products is fail-soft: when the
\* request of chunk k fails (failure code, or transport error through all
\* retries), failed grows by the size of chunk k, every later chunk is still
\* requested, and the successes of the other chunks are counted.
C6_BulkCreateFailSoft ==
  last.op = "bulk_create_products" /\ Live
    /\ (\A k \in 1..ChunkCount : last.kinds[k] # "http_401")
    /\ (\E k \in 1..ChunkCount : RequestFailed(k, CreatePayload)) =>
    /\ \A k \in 1..ChunkCount : Requests(k, CreatePayload) # {}
    /\ last.results.failed =
         Sum([k \in 1..ChunkCount |->
                IF RequestFailed(k, CreatePayload) THEN Len(Chunk(k))
                ELSE Cardinality({j \in DOMAIN ItemResults(k) :
                                   ~ItemResults(k)[j].success})],
             1..ChunkCount)
    /\ last.results.success =
         Sum([k \in 1..ChunkCount |->
                IF RequestFailed(k, CreatePayload) THEN 0
                ELSE Cardinality({j \in DOMAIN ItemResults(k) :
                                   ItemResults(k)[j].success})],
             1..ChunkCount)

\* C9 as claimed: a 401/403 answer of the channel transport is never
\* retried (one request is sent) and the authentication error propagates
\* out of the downstream client's operation.
C9_DownstreamAuthNotRetried ==
  /\ last.op = "get_orders"
  /\ Live
  /\ last.log # <<>>
  /\ last.log[1].answer \in {"http_401", "http_403"}
  => Len(last.log) = 1 /\ last.raised

MutatingOps == {"update_inventory", "bulk_update_inventory", "create_product",
                "bulk_create_products", "update_product",
                "update_order_tracking"}
\* the success indicator of the last mutating call
Succeeded ==
  CASE last.op = "create_product" -> last.result # None
    [] last.op = "bulk_create_products" ->
         /\ last.results.success = Len(last.items)
         /\ last.results.failed = 0
    [] OTHER -> last.result = TRUE

\* C11 as claimed: when the downstream client is in mock mode or in dry-run
\* mode, every mutating call returns a success indicator (True, a non-null
\* id, or all items counted as success) and sends no request.
C11_MockMutationsSucceedOffline ==
  last.op \in MutatingOps /\ (tiktok.mock_mode \/ tiktok.dry_run) =>
    /\ last.log = <<>>
    /\ Succeeded


(***************************************************************************)
(* Claims about the upstream client.                                       *)
(***************************************************************************)
ShopifyOps == {"get_all_products", "get_inventory_levels",
               "get_recent_orders", "get_product_by_id"}
AuthAnswers == {i \in DOMAIN last.log : last.log[i].answer \in {"e401", "e403"}}

\* C8 as claimed: when the store transport answers 401 or 403, the upstream
\* operation has called the transport exactly once in total, and it fails
\* with the authentication/configuration error (ValueError), not a
\* transient one.
C8_UpstreamAuthOneCall ==
  last.op \in ShopifyOps /\ AuthAnswers # {} =>
    /\ Len(last.log) = 1
    /\ last.raised
    /\ last.exc = "ValueError"

(***************************************************************************)
(* Claims about _retry_request.                                            *)
(***************************************************************************)
RetryOps == {"tiktok._retry_request", "shopify._retry_request"}
\* the wrapped call reached the transport and failed with the same
\* transient error on every attempt
TransientKinds == {"timeout", "http_500", "e500"}
AlwaysTransient ==
  /\ last.op \in RetryOps
  /\ last.kind \in TransientKinds
  /\ (last.op = "tiktok._retry_request" => tiktok.has_access_token)
  /\ (last.op = "shopify._retry_request" =>
        "." \in Range(Config.SHOPIFY_STORE))
OriginalType(kind) == IF kind = "timeout" THEN "Timeout" ELSE "HTTPError"

\* C7 as claimed: for every configured MAX_RETRIES, a wrapped call that
\* fails with a transient error on every attempt is invoked exactly
\* MAX_RETRIES times and the caller then observes an error of the original
\* type.
C7_RetryExactlyMaxRetries ==
  AlwaysTransient =>
    /\ Len(last.log) = Config.MAX_RETRIES
    /\ last.raised
    /\ last.exc = OriginalType(last.kind)

\* C7: for MAX_RETRIES >= 1 the wrapped call is invoked exactly MAX_RETRIES
\* times and the caller observes an error of the original type; for
\* MAX_RETRIES = 0 it is never invoked and _retry_request returns None
\* without raising.
C7_RetryExactlyPositiveMaxRetries ==
  AlwaysTransient =>
    /\ Len(last.log) = Config.MAX_RETRIES
    /\ \A i \in DOMAIN last.log : last.log[i].answer = last.kind
    /\ (Config.MAX_RETRIES >= 1 =>
          last.raised /\ last.exc = OriginalType(last.kind))
    /\ (Config.MAX_RETRIES = 0 => ~last.raised /\ last.is_none)

C7_Witness ==
  /\ AlwaysTransient
  /\ last.op = "shopify._retry_request"
  /\ last.kind = "e500"
  /\ Config.MAX_RETRIES = 3
  /\ Len(last.log) = 3
  /\ last.raised
  /\ last.exc = "HTTPError"

(***************************************************************************)
(* Claims about the orchestrator.                                          *)
(***************************************************************************)
SyncOps == {"sync_inventory", "sync_products", "sync_orders"}

\* C10: sync_inventory, sync_products and sync_orders never raise; when an
\* exception reaches the operation (its `except Exception` runs) the result
\* returned has success, failed and total counts with failed = total.
C10_SyncNeverRaises ==
  last.op \in SyncOps =>
    /\ ~last.raised
    /\ {"success", "failed", "total"} \subseteq DOMAIN last.results
    /\ (last.caught => last.results.failed = last.results.total)

C10_Witness ==
  /\ last.op = "sync_orders"
  /\ last.caught
  /\ ~last.raised
  /\ last.results.total = 2
  /\ last.results.success = 1
  /\ last.results.failed = 2

\* C12 as claimed: every run_full_sync invokes sync_inventory and then
\* sync_products, in that order, exactly once each, whatever sync_inventory
\* returned or whichever failure it met, and run_full_sync does not raise.
C12_FullSyncRunsBoth ==
  last.op = "run_full_sync" =>
    /\ last.calls = <<"sync_inventory", "sync_products">>
    /\ ~last.raised

\* the updates for the fetched levels that have a non-empty SKU
HasSku(level) ==
  "sku" \in DOMAIN level /\ level.sku # None /\ level.sku # <<>>
U ==
  LET kept == SelectSeq(last.levels, HasSku) IN
  [i \in DOMAIN kept |->
     [sku |-> kept[i].sku,
      quantity |-> IF "available" \in DOMAIN kept[i] THEN kept[i].available
                   ELSE 0]]

\* C13: with U the fetched inventory levels that have a non-empty SKU,
\* sync_inventory returns success = 0 and failed = 0 without calling the
\* downstream client when U is empty; otherwise it calls
\* bulk_update_inventory(U) exactly once and returns success = |U|,
\* failed = 0 when the call returned True and success = 0, failed = |U|
\* when it returned False.
C13_SyncInventoryAllOrNothing ==
  last.op = "sync_inventory" /\ ~last.running =>
    /\ last.results.total = Len(last.levels)
    /\ IF U = <<>>
       THEN /\ last.sent = <<>>
            /\ last.results.success = 0
            /\ last.results.failed = 0
       ELSE /\ last.sent = <<U>>
            /\ Len(last.returned) = 1
            /\ last.returned[1] =>
                 last.results.success = Len(U) /\ last.results.failed = 0
            /\ ~last.returned[1] =>
                 last.results.success = 0 /\ last.results.failed = Len(U)

C13_Witness ==
  /\ last.op = "sync_inventory"
  /\ ~tiktok.mock_mode /\ ~tiktok.dry_run
  /\ Len(U) >= 1
  /\ last.sent = <<U>>
  /\ last.returned = <<FALSE>>
  /\ last.results = [success |-> 0, failed |-> Len(U), total |-> Len(U)]

(***************************************************************************)
(* Claims about pagination.                                                *)
(***************************************************************************)
\* C14 as claimed: get_all_products terminates for every behaviour of the
\* store, a store that answers every request with a non-empty page and a
\* rel="next" link (or whose cursors form a cycle) included: no call is
\* still paging after MaxRequests requests.
C14_GetAllProductsTerminates ==
  last.op = "get_all_products" => ~last.running

\* the requests of the cursor loop (the page-number fallback sends `page`)
CursorRequests ==
  {i \in DOMAIN last.log : "page" \notin DOMAIN last.log[i].params}

\* C15 as claimed: the cursor loop of get_all_products stops as soon as a
\* page holds fewer than `limit` products or the response carries no
\* rel="next" cursor: such a response is the last request of the call.
C15_PaginationStops ==
  last.op = "get_all_products" =>
    \A i \in CursorRequests :
      /\ last.pages[i].ok
      /\ \/ last.pages[i].items < last.log[i].params.limit
         \/ ~last.pages[i].next
      => i = Len(last.log) /\ ~last.running

(***************************************************************************)
(* Claims about the pure functions of the mapping engine.                  *)
(***************************************************************************)
\* how often each tag occurs in a tag list: what sorting keeps of it
TagCounts(tags) ==
  [t \in Range(tags) |-> Cardinality({i \in DOMAIN tags : tags[i] = t})]
\* the stable subset of a product
StableSubset(P) ==
  <<P.id, P.title,
    SubSeq(P.description, 1,
           IF Len(P.description) < KeyDescLen THEN Len(P.description)
           ELSE KeyDescLen),
    P.product_type, TagCounts(P.tags)>>

\* C16: _generate_cache_key depends only on (id, title, first 100
\* characters of description, product_type, tags as a sorted list): the
\* same product gives the same key again, products that differ in title
\* give different keys, and products that agree on the stable subset
\* (differing only in another field, beyond the 100th character of the
\* description, or in the order of their tags) give the same key.
C16_CacheKeyStableSubset ==
  last.op = "_generate_cache_key" =>
    /\ last.again = last.key_P
    /\ (prev.P.title # prev.Q.title => last.key_P # last.key_Q)
    /\ (last.key_P = last.key_Q <=> StableSubset(prev.P) = StableSubset(prev.Q))

C16_Witness ==
  /\ last.op = "_generate_cache_key"
  /\ prev.P.tags # prev.Q.tags
  /\ Len(prev.P.tags) = 2
  /\ prev.P.tags = Reverse(prev.Q.tags)
  /\ Len(prev.P.description) > KeyDescLen
  /\ last.key_P = last.key_Q

VariantFields == {"sku", "title", "price", "inventory_quantity", "barcode"}

\* C17: _fallback_mapping(P) returns for every product P (empty tags, empty
\* description and zero variants included), gives the same result when
\* called again, makes no AI call and does not read or change the cache,
\* and its result has P's title and one variant per variant of P, in the
\* same order, with sku, title, price, inventory_quantity and barcode
\* copied unchanged.
C17_FallbackTotal ==
  last.op = "_fallback_mapping" =>
    /\ last.again = last.result
    /\ last.calls = 0
    /\ last.self = ai_mapper
    /\ (ai_mapper.has_cache =>
          last.result # ai_mapper._cache[_generate_cache_key(prev.P)])
    /\ last.result.title = prev.P.title
    /\ Len(last.result.variants) = Len(prev.P.variants)
    /\ \A i \in DOMAIN prev.P.variants :
         /\ DOMAIN last.result.variants[i] = VariantFields
         /\ \A f \in VariantFields \cap DOMAIN prev.P.variants[i] :
              last.result.variants[i][f] = prev.P.variants[i][f]

C17_Witness ==
  /\ last.op = "_fallback_mapping"
  /\ ai_mapper.has_cache
  /\ prev.P.tags = <<>>
  /\ prev.P.description = <<>>
  /\ prev.P.variants = <<VarNoSku, VarRepriced>>
  /\ last.result.variants[2].price = VarRepriced.price
  /\ last.result.variants[1].title = VarNoSku.title

NotWhitespace(c) == c \notin Whitespace
\* the hashtag the claim gives a tag
ClaimedHashtag(tag) ==
  IF startswith(tag, <<"#">>) THEN tag
  ELSE <<"#">> \o SelectSeq(tag, NotWhitespace)
ClaimedHashtags(P) ==
  IF P.tags = <<>> THEN DefaultHashtags
  ELSE [i \in 1..(IF Len(P.tags) < FallbackMaxTags THEN Len(P.tags)
                  ELSE FallbackMaxTags) |-> ClaimedHashtag(P.tags[i])]
Separators == {<<>>, <<" ">>, <<"\n">>, <<"\n", "\n">>}

\* C18 as claimed: _fallback_mapping(P).hashtags has one entry for each of
\* the first 5 tags of P, in tag order: '#' followed by the tag with its
\* whitespace removed, or the tag unchanged when it already begins with
\* '#'; it is the default set when P has no tags; the description is
\* P.description followed by those hashtags joined by spaces.
C18_FallbackHashtags ==
  last.op = "_fallback_mapping" =>
    /\ last.result.hashtags = ClaimedHashtags(prev.P)
    /\ \E sep \in Separators :
         last.result.description =
           prev.P.description \o sep \o join(last.result.hashtags)

(***************************************************************************)
(* Claims about mapping in dry-run mode and with a structured AI result.   *)
(***************************************************************************)
\* batch_map_products was applied in dry-run mode to the product tagged
\* y2k, trend and the product without tags
DryRunScenario ==
  /\ last.op = "batch_map_products"
  /\ ai_mapper.dry_run
  /\ last.products = <<ProdTagged, ProdBare>>
InInputOrder ==
  /\ Len(last.results) = 2
  /\ last.results[1].shopify_id = ProdTagged.id
  /\ last.results[2].shopify_id = ProdBare.id

\* C19 as claimed: in the scenario the two results are in input order and
\* the product without tags carries exactly the default hashtag set.
C19_DryRunDefaultHashtags ==
  DryRunScenario =>
    /\ InInputOrder
    /\ last.results[2].hashtags = DefaultHashtags

\* C19: in the scenario the two results are in input order and both carry
\* the hashtags of the canned AI result; neither carries the default
\* hashtag set, which only the fallback mapping produces.
C19_DryRunCannedHashtags ==
  DryRunScenario =>
    /\ InInputOrder
    /\ \A i \in 1..2 :
         /\ last.paths[i] \in {"ai", "hit"}
         /\ last.results[i].hashtags = CannedResult.obj.hashtags
         /\ last.results[i].hashtags # DefaultHashtags

C19_Witness ==
  /\ DryRunScenario
  /\ InInputOrder
  /\ last.paths = <<"ai", "ai">>
  /\ ProdTagged.tags = << <<"y", "2", "k">>, <<"t", "r", "e", "n", "d">> >>
  /\ ProdBare.tags = <<>>
  /\ last.results[2].hashtags = CannedResult.obj.hashtags

\* the structured result the AI step of the last map_product yielded: the
\* canned result in dry-run mode, else the answer to its last request
AIResult ==
  IF ai_mapper.dry_run THEN CannedResult.obj
  ELSE json_loads(last.resps[last.calls]).obj
\* the optimized title and description an AI result carries
OptimizedTitle(obj) ==
  IF "optimized_title" \in DOMAIN obj THEN obj.optimized_title
  ELSE obj.tiktok_title
OptimizedDescription(obj) ==
  IF "optimized_description" \in DOMAIN obj THEN obj.optimized_description
  ELSE obj.tiktok_description
HasOptimized(obj) ==
  /\ {"optimized_title", "tiktok_title"} \cap DOMAIN obj # {}
  /\ {"optimized_description", "tiktok_description"} \cap DOMAIN obj # {}

\* C20 as claimed: when the AI step yields a structured result (a parsed
\* live response, or the canned dry-run result), the product map_product
\* returns has the AI result's optimized title and optimized description
\* as its title and description, the AI result's hashtags as its hashtags,
\* and the source product's id as its _shopify_id.
C20_StructuredResultUsed ==
  last.op = "map_product" /\ last.path = "ai" /\ HasOptimized(AIResult) =>
    /\ last.result.title = OptimizedTitle(AIResult)
    /\ last.result.description = OptimizedDescription(AIResult)
    /\ last.result.hashtags = AIResult.hashtags
    /\ last.result.shopify_id = last.product.id

\* C21: clear_cache can be called in any state, before any mapping too, and
\* leaves the cache empty; the next map_product with use_cache, of a
\* fingerprint the cache held or of any other, is a cache miss.
C21_ClearCacheEmpties ==
  /\ (last.op = "clear_cache" =>
        /\ DOMAIN ai_mapper._cache = {}
        /\ \A p \in MapperProducts : ~InCache(_generate_cache_key(p)))
  /\ (prev.op = "clear_cache" /\ last.op = "map_product" =>
        /\ last.path \in {"ai", "fallback"}
        /\ (last.path = "ai" /\ ~ai_mapper.dry_run => last.calls >= 1))

C21_Witness ==
  /\ prev.op = "clear_cache"
  /\ last.op = "map_product"
  /\ last.use_cache
  /\ last.key \in prev.cleared
  /\ last.path = "ai"
  /\ ~ai_mapper.dry_run
  /\ last.calls = 1

\* an order whose processing fails: it is no dict, or its line_items have
\* no length
FailsProcessing(order) ==
  ~is_dict(order) \/ Get(order, "line_items", <<>>) = None

\* C22: sync_orders processes every fetched order once: each order whose
\* processing fails adds one to failed, every other order adds one to
\* success, and success + failed = total = the number of fetched orders.
C22_OrdersEachCounted ==
  last.op = "sync_orders" =>
    LET n == Len(last.fetched)
        bad == {i \in 1..n : FailsProcessing(last.fetched[i])}
    IN /\ ~last.raised
       /\ last.results.total = n
       /\ last.results.failed = Cardinality(bad)
       /\ last.results.success = n - Cardinality(bad)
       /\ last.results.success + last.results.failed = last.results.total

\* C23: for every limit >= 0 sync_products maps and pushes at most `limit`
\* products, the first `limit` of the fetched sequence in their order, and
\* returns a total of at most `limit`.
C23_LimitBoundsProducts ==
  last.op = "sync_products" /\ ~last.running =>
    /\ last.results.total <= last.limit
    /\ Len(last.sent) <= 1
    /\ \A k \in 1..Len(last.sent) :
         /\ Len(last.sent[k]) <= last.limit
         /\ Len(last.sent[k]) = Min(last.limit, Len(last.fetched))
         /\ \A i \in 1..Len(last.sent[k]) :
              last.sent[k][i].shopify_id = last.fetched[i].id

\* C24: for a product that has tags the fallback mapping's description is
\* the product's description unchanged, and the mapping carries the
\* product's product_type as its category.
C24_FallbackKeepsDescription ==
  last.op = "_fallback_mapping" /\ Get(prev.P, "tags", <<>>) # <<>> =>
    /\ last.result.description = Get(prev.P, "description", <<>>)
    /\ "category" \in DOMAIN last.result
    /\ last.result.category = Get(prev.P, "product_type", None)

\* C25: with a SyncBot registered, /health answers 200 with the status
\* healthy or degraded, reports the scheduler as running while it runs, and
\* carries the field openai.
C25_HealthWithBot ==
  last.op = "health" /\ _sync_bot_instance # None =>
    /\ last.status_code = 200
    /\ last.json.status \in {"healthy", "degraded"}
    /\ (scheduler = Running =>
          "scheduler" \in DOMAIN last.json /\ last.json.scheduler = "running")
    /\ "openai" \in DOMAIN last.json

\* C26: when the fetch of sync_inventory or sync_products fails, the
\* operation returns a failed result, failed >= 1, which differs from the
\* result of synchronising an empty catalog.
C26_FetchFailureIsFailedResult ==
  last.op \in {"sync_inventory", "sync_products"} /\ last.caught =>
    /\ ~last.raised
    /\ last.results.failed >= 1
    /\ <<last.results.success, last.results.failed, last.results.total>>
         # <<0, 0, 0>>

\* the requests of the page-number fallback
FallbackRequests ==
  {i \in DOMAIN last.log : "page" \in DOMAIN last.log[i].params}
FallbackPageNumbers == {last.log[i].params.page : i \in FallbackRequests}
FullPage(i) ==
  last.pages[i].ok /\ last.pages[i].items = last.log[i].params.limit

\* C27: the page-number fallback of get_all_products requests at most 10
\* pages, numbered from 1; it requests pages 1 through 10 when every page
\* is full, and stops at the first page that is empty or shorter than limit.
C27_FallbackTenPages ==
  last.op = "get_all_products" /\ FallbackRequests # {} =>
    /\ FallbackPageNumbers = 1..Cardinality(FallbackPageNumbers)
    /\ Cardinality(FallbackPageNumbers) <= 10
    /\ ((\A i \in FallbackRequests : FullPage(i))
          => FallbackPageNumbers = 1..10)
    /\ \A i \in FallbackRequests :
         last.pages[i].ok /\ ~FullPage(i) => i = Len(last.log)

\* C28: a 2xx response of the store whose body cannot be decoded is a
\* transient failure: the request is retried, so it succeeds when the next
\* answer is well formed, and it is attempted MAX_RETRIES times before the
\* error propagates when every answer is malformed.
C28_MalformedResponseRetried ==
  /\ last.op = "shopify._retry_request"
  /\ Len(last.log) >= 1
  /\ last.log[1].answer = "bad_json"
  => /\ (last.kind = "bad_json" =>
           Len(last.log) = Config.MAX_RETRIES /\ last.raised)
     /\ (last.kind = "mixed" /\ Config.MAX_RETRIES >= 2 =>
           Len(last.log) = 2 /\ ~last.raised)

\* the answers of the AI transport that json.loads accepts
Parseable == {"json_object", "json_partial", "json_array"}
\* the map_product call reached the AI service and the transport answered
\* every request
AnsweredCall ==
  /\ last.op = "map_product"
  /\ last.path # "hit"
  /\ ~ai_mapper.dry_run
  /\ \A i \in DOMAIN last.resps : last.resps[i] \in Parseable \cup {"bad_json"}
FirstParseable ==
  {k \in DOMAIN last.resps :
     /\ last.resps[k] \in Parseable
     /\ \A j \in 1..(k - 1) : last.resps[j] = "bad_json"}

\* C29: when every AI response is unparseable, one uncached map_product
\* invokes the AI service exactly max_retries times and returns the
\* fallback mapping without raising; a parseable response on attempt k
\* ends the retries after k invocations.
C29_ParseFailureRetried ==
  AnsweredCall =>
    /\ ~last.raised
    /\ ((\A i \in 1..AIMaxRetries : last.resps[i] = "bad_json") =>
          /\ last.calls = AIMaxRetries
          /\ last.path = "fallback"
          /\ last.result = _fallback_mapping(last.product))
    /\ \A k \in FirstParseable : k <= AIMaxRetries => last.calls = k

C29_Witness ==
  /\ AnsweredCall
  /\ ~last.use_cache
  /\ last.resps = <<"bad_json", "bad_json", "bad_json">>
  /\ last.calls = AIMaxRetries
  /\ last.product = ProdTagged
  /\ last.result = _fallback_mapping(ProdTagged)

\* C30: a response wrapped in a fenced code block is parsed as exactly the
\* payload between the fences, whatever the number of lines it spans and
\* whether or not the payload shares a line with a fence: what json.loads
\* is given is the payload, and a live _call_openai returns the payload's
\* value after one request when the payload is a JSON text.
C30_FencedPayloadParsed ==
  prev.op = "input" /\ prev.fenced =>
    /\ (last.op = "parse_response" =>
          /\ last.content = prev.payload
          /\ last.raised = loads(prev.payload).raised
          /\ last.value = loads(prev.payload).value)
    /\ (last.op = "_call_openai" /\ ~ai_mapper.dry_run
          /\ ~loads(prev.payload).raised =>
          /\ ~last.raised
          /\ last.calls = 1
          /\ last.value = loads(prev.payload).value)


\* ---------------------------------------------------------------------------
\* C31  get_inventory_levels called without ids returns one entry for each
\* variant of the fetched products that has a non-empty SKU and an inventory
\* item id, in product-then-variant order, and the entries returned plus the
\* variants skipped for a missing SKU plus the variants skipped for missing
\* tracking are all the variants of the fetched products.
C31_Expected == SelectSeq(SelectSeq(AllVariants(last.fetched), Tracked), WithSku)
C31_LevelsPartitionVariants ==
  (last.op = "get_inventory_levels" /\ last.ids = <<>>
     /\ ~last.raised /\ ~last.running) =>
    /\ Len(last.result) = Len(C31_Expected)
    /\ \A k \in DOMAIN last.result :
         /\ last.result[k].inventory_item_id
              = C31_Expected[k].variant.inventory_item_id
         /\ last.result[k].sku = C31_Expected[k].variant.sku
    /\ Len(last.result) + last.skipped.no_sku + last.skipped.no_tracking
         = Len(AllVariants(last.fetched))
\* a call that fetched products, returned an entry and skipped a variant for
\* each of the two reasons
C31_Witness ==
  /\ last.op = "get_inventory_levels" /\ last.ids = <<>>
  /\ ~last.raised /\ ~last.running
  /\ Len(last.result) >= 1
  /\ last.skipped.no_sku >= 1 /\ last.skipped.no_tracking >= 1


\* ---------------------------------------------------------------------------
\* C32  chunking of the bulk operations
BulkOps == {"bulk_update_inventory", "bulk_create_products"}
\* the input of the last bulk call as its requests carry it
BulkInput ==
  IF last.op = "bulk_update_inventory" THEN UpdatePayload(last.items)
  ELSE CreatePayload(last.items)
BulkPayload(batch) ==
  IF last.op = "bulk_update_inventory" THEN UpdatePayload(batch)
  ELSE CreatePayload(batch)
\* the payloads of the requests sent, in the order sent
SentChunks == [i \in DOMAIN last.log |-> last.log[i].data]
\* the same with the repeated attempts of one chunk counted once
RECURSIVE Collapse(_)
Collapse(cs) ==
  IF Len(cs) <= 1 THEN cs
  ELSE IF cs[1] = cs[2] THEN Collapse(Tail(cs))
  ELSE <<cs[1]>> \o Collapse(Tail(cs))
RECURSIVE Flat(_)
Flat(cs) ==
  IF cs = <<>> THEN <<>> ELSE Head(cs) \o Flat(Tail(cs))
EveryChunkSucceeded ==
  \A k \in 1..ChunkCount : RequestSucceeded(k, BulkPayload)

\* C32 as claimed: in live mode bulk_update_inventory and
\* bulk_create_products send their input as consecutive chunks of at most
\* BATCH_SIZE items, one request per chunk, and the chunks sent, put together,
\* are the input; when every chunk succeeds ceil(n / BATCH_SIZE) requests are
\* made, and none for an empty input.
C32_ChunksSentAreInput ==
  last.op \in BulkOps /\ Live =>
    /\ \A i \in DOMAIN SentChunks : Len(SentChunks[i]) <= Config.BATCH_SIZE
    /\ Flat(SentChunks) = BulkInput
    /\ (EveryChunkSucceeded => Len(last.log) = ChunkCount)
    /\ (last.items = <<>> => last.log = <<>>)

\* C32 amended: in live mode the requests carry consecutive chunks of 1 to
\* BATCH_SIZE items in input order; the chunks sent, the repeated attempts of
\* a chunk counted once, put together are a leading part of the input, and
\* the whole input when the request of every chunk succeeded; when every
\* request sent was answered successfully and every chunk succeeded,
\* ceil(n / BATCH_SIZE) requests are made; none for an empty input.
C32_ChunksSentArePrefix ==
  last.op \in BulkOps /\ Live =>
    LET sent == Flat(Collapse(SentChunks)) IN
    /\ \A i \in DOMAIN SentChunks :
         Len(SentChunks[i]) \in 1..Config.BATCH_SIZE
    /\ sent = Take(BulkInput, Len(sent))
    /\ (EveryChunkSucceeded => sent = BulkInput)
    /\ (EveryChunkSucceeded
          /\ (\A i \in DOMAIN last.log : last.log[i].answer \in TkOk) =>
            Len(last.log) = ChunkCount)
    /\ (last.items = <<>> => last.log = <<>>)
\* three products in chunks of two, the first chunk sent twice (a timeout,
\* then an answer), every chunk succeeding
C32_Witness ==
  /\ last.op = "bulk_create_products" /\ Live
  /\ Config.BATCH_SIZE = 2 /\ Len(last.items) = 3
  /\ Len(last.log) = 3
  /\ EveryChunkSucceeded
  /\ Flat(Collapse(SentChunks)) = BulkInput


\* ---------------------------------------------------------------------------
\* C33 as claimed: with main()'s wiring (the scheduler's job thread running
\* run_full_sync every `interval` seconds, the main thread running the
\* initial sync on the same SyncBot) at most one sync operation executes at
\* any time, so no two threads are inside map_product's cache check,
\* creation and insert at once.
InSync(t) == threads[t].pc \in SyncPcs
InCacheSection(t) == threads[t].pc \in CachePcs
C33_OneSyncAtATime ==
  "main" \in DOMAIN threads =>
    /\ ~(InSync("main") /\ InSync("job"))
    /\ ~(InCacheSection("main") /\ InCacheSection("job"))


\* ---------------------------------------------------------------------------
\* C34 as claimed: every InventoryUpdate sync_inventory passes to
\* bulk_update_inventory has a non-empty sku and an integer quantity >= 0,
\* whatever inventory quantities the store reports for the variants.
C34_UpdatesWellFormed ==
  last.op = "sync_inventory" =>
    \A c \in DOMAIN last.sent : \A k \in DOMAIN last.sent[c] :
      /\ truthy(last.sent[c][k].sku)
      /\ last.sent[c][k].quantity >= 0


\* ---------------------------------------------------------------------------
\* C35 as claimed: for every outcome of the channel's requests the result of
\* bulk_create_products(products) has success + failed = len(products) and
\* len(product_ids) = success.
C35_CreateCountsAddUp ==
  last.op = "bulk_create_products" =>
    /\ last.results.success + last.results.failed = Len(last.items)
    /\ Len(last.results.product_ids) = last.results.success
\* the half of C35 that holds: one product id for each success
C35_OneIdPerSuccess ==
  last.op = "bulk_create_products" =>
    Len(last.results.product_ids) = last.results.success
\* the chunks answered item by item, but for a transport error in the last
\* chunk: more is counted than there are products
C35_Overcount ==
  /\ last.op = "bulk_create_products" /\ Live
  /\ \E k \in DOMAIN last.kinds :
       /\ last.kinds[k] = "timeout"
       /\ \A j \in DOMAIN last.kinds : j # k => last.kinds[j] = "ok"
  /\ last.results.success + last.results.failed > Len(last.items)


\* ---------------------------------------------------------------------------
\* C36 as claimed: the list get_all_products returns holds each product of
\* the store at most once, whichever requests fail; in particular when the
\* cursor pagination fails after pages were accumulated and the page-number
\* fallback starts again from page 1.  (Checked for the store that pages
\* honestly.)
C36_EachProductOnce ==
  (last.op = "get_all_products" /\ last.mode = "honest"
     /\ ~last.raised /\ ~last.running) =>
    \A i, j \in DOMAIN last.result :
      last.result[i].id = last.result[j].id => i = j
\* the run the claim singles out: the first page is accumulated, the
\* request of the second page fails, the fallback asks for page 1
C36_FallbackAfterPage ==
  /\ last.op = "get_all_products" /\ last.mode = "honest"
  /\ ~last.raised /\ ~last.running
  /\ Len(last.log) >= 3
  /\ last.log[1].answer = "ok"
  /\ last.log[2].answer # "ok"
  /\ \E i \in DOMAIN last.log :
       "page" \in DOMAIN last.log[i].params /\ last.log[i].params.page = 1
  /\ \E i, j \in DOMAIN last.result :
       i # j /\ last.result[i].id = last.result[j].id


\* ---------------------------------------------------------------------------
\* C37 as claimed: the ChannelProduct map_product(P, use_cache=true) returns
\* has the variants of P as they are at the call (sku, title, price,
\* inventory_quantity, barcode), in order, a cache hit on a fingerprint
\* stored before the prices and quantities changed included.
C37_VariantsCurrent ==
  last.op = "map_product" /\ last.use_cache =>
    last.result.variants = map_variants(last.product)
\* without a cache hit the variants are those of the product
C37_VariantsCurrentUnlessHit ==
  last.op = "map_product" /\ last.path # "hit" =>
    last.result.variants = map_variants(last.product)
\* the repriced product is answered from the entry of the product as it was
C37_StaleHit ==
  /\ last.op = "map_product" /\ last.use_cache
  /\ last.product = ProdRepriced
  /\ last.path = "hit"
  /\ last.result.variants = map_variants(ProdTagged)
  /\ map_variants(ProdTagged) # map_variants(ProdRepriced)


\* ---------------------------------------------------------------------------
\* C38  map_product(P, use_cache=false) neither reads nor writes the cache:
\* the cache after the call is the cache before it, and the AI step is
\* performed (no cache hit; a request is sent unless the mapper runs dry)
\* even when fingerprint(P) is cached.
UncachedCall ==
  /\ last'.op = "map_product" /\ ~last'.use_cache
  /\ <<ai_mapper, prev, last>>' # <<ai_mapper, prev, last>>
C38_NoCacheUse ==
  [][UncachedCall =>
       /\ ai_mapper' = ai_mapper
       /\ last'.path \in {"ai", "fallback"}
       /\ (~ai_mapper.dry_run => last'.calls >= 1)]_vars
\* an uncached call for a product whose fingerprint is cached went through
\* the AI step and left the entry as it was
C38_Witness ==
  /\ last.op = "map_product" /\ ~last.use_cache
  /\ InCache(last.key)
  /\ last.path = "ai" /\ last.calls >= 1
  /\ prev.op = "map_product" /\ prev.use_cache /\ prev.key = last.key


\* ---------------------------------------------------------------------------
\* C39 as claimed: on every attempt of a signed live request, the retries of
\* _retry_request included, the signature is computed over the caller's
\* query parameters plus app_key and that attempt's timestamp, never over a
\* `sign` value or a timestamp a previous attempt left in the parameters.
C39_SignedOverCallerParams ==
  last.op = "signed_request" =>
    \A a \in DOMAIN last.attempts :
      /\ DOMAIN last.attempts[a].signed
           = last.keys \cup {"app_key", "timestamp"}
      /\ last.attempts[a].signed.timestamp
           = str(last.attempts[a].timestamp)
\* the half of C39 that holds: the timestamp signed is the attempt's own
C39_OwnTimestamp ==
  last.op = "signed_request" =>
    \A a \in DOMAIN last.attempts :
      last.attempts[a].signed.timestamp = str(last.attempts[a].timestamp)
\* get_orders retried after a timeout: the second signature covers the
\* first one
C39_SignOverSign ==
  /\ last.op = "signed_request" /\ last.call = "get_orders"
  /\ last.kind = "flaky"
  /\ Len(last.attempts) = 2
  /\ "sign" \notin DOMAIN last.attempts[1].signed
  /\ "sign" \in DOMAIN last.attempts[2].signed
  /\ last.attempts[2].signed.sign = last.attempts[1].sign

====
